---- MODULE Spec2Model ----
(***************************************************************************)
(* Model of the UV curing experiment controller: the worker thread         *)
(* (gui.py, ExperimentWorker.run), the hardware sequencing of              *)
(* ExperimentRunner (utils/experiment_runner.py) and the two capability    *)
(* classes MotionSystem (utils/motion_system.py) and UVcontroller          *)
(* (utils/uv_controller.py).                                               *)
(*                                                                         *)
(* The worker runs sequentially; the only concurrent writer is the GUI     *)
(* thread's stop(), which sets _abort_requested.  run() is therefore cut   *)
(* into one action per blocking operation, each ending at the next read    *)
(* of the flag, so that stop() can fall before or after every poll.        *)
(*                                                                         *)
(* Spec is the worker's run.  Further specifications take one part of the  *)
(* program alone, on every input up to a bound: SpecLoad is                *)
(* ExperimentRunner.load_coordinates on a coordinate file, SpecPath is     *)
(* ImageTSPOptimizer.run (utils/path_generator.py) on an image, SpecSave   *)
(* is save_optimized_path followed by load_coordinates on the file it      *)
(* wrote, SpecEstimate is estimate_duration on a loaded file.  SpecGui     *)
(* adds MainWindow's start button and finished handler around the worker,  *)
(* and SpecTwice runs the worker twice on the same inputs with different   *)
(* overhead settings.  SpecLive is Spec with the fairness of the worker    *)
(* thread.  SpecPipeline is the worker's run with the path generator it    *)
(* calls and the coordinate file the two share.  SpecDevices calls the two *)
(* capabilities directly in any order, SpecRunner is ExperimentRunner.run, *)
(* the sequencer without cancellation, and SpecHms is seconds_to_hms       *)
(* (utils/helpers.py).                                                     *)
(***************************************************************************)
EXTENDS Integers, Sequences, FiniteSets, TLC

\* Largest number of coordinate rows a generated file holds in the model.
MaxSteps == 4

VARIABLES
    pc,               \* position of ExperimentWorker.run
    abort_requested,  \* ExperimentWorker._abort_requested
    is_running,       \* ExperimentWorker._is_running
    overall_success,  \* local overall_success of run()
    final_message,    \* local final_message of run()
    runner,           \* TRUE once self.runner holds an ExperimentRunner
    total_steps,      \* ExperimentRunner.total_steps
    i,                \* loop index of the stepping loop (1-based)
    motion,           \* MotionSystem: _is_connected, stage_x, stage_y
    uv,               \* UVcontroller: _is_connected, serial open
    lamp,             \* physical state of the UV source
    log,              \* hardware calls and cure waits, in program order
    progress,         \* percentages passed to progress_update.emit
    finished,         \* (success, message) pairs passed to finished.emit
    stopPc,           \* position of run() when stop() was called ("none")
    stopStep,         \* step in flight when stop() was called (0: none)
    polledAt,         \* Len(log) when a poll found the flag set (-1: never)
    cleanups,         \* executions of runner._disconnect_hardware() by run()
    path_gen_success, \* result of path_optimizer.run() ("unset" before it)
    estimated_total_seconds,  \* local of run(), in 1/10 s (-1 before it is set)
    elapsed_time,             \* time.monotonic() - run_start_time, in 1/10 s
    estimated_remaining_sec,  \* local of run(): the quotient num / den, 1/10 s
    cleanup_faults    \* failures met by the calls of the finally block

vars == <<pc, abort_requested, is_running, overall_success, final_message,
          runner, total_steps, i, motion, uv, lamp, log, progress, finished,
          stopPc, stopStep, polledAt, cleanups, path_gen_success,
          estimated_total_seconds, elapsed_time, estimated_remaining_sec,
          cleanup_faults>>

\* What a run is given, and the window that launches runs.
VARIABLES
    cure_time_s,              \* ExperimentRunner.cure_time_s, in 1/10 s
    uv_command_overhead_s,    \* ExperimentRunner.uv_command_overhead_s, 1/10 s
    move_process_overhead_s,  \* ExperimentRunner.move_process_overhead_s
    start_button_enabled,     \* MainWindow.start_button.isEnabled()
    worker_thread,            \* TRUE while MainWindow.worker_thread is set
    launches,                 \* workers started by start_experiment so far
    first                     \* what an earlier run of the same inputs did

envVars == <<cure_time_s, uv_command_overhead_s, move_process_overhead_s,
             start_button_enabled, worker_thread, launches, first>>

\* ExperimentRunner.load_coordinates() taken alone (SpecLoad).
VARIABLES
    input_file,       \* the coordinate file: exists, fields of each row
    coordinates,      \* ExperimentRunner.coordinates: None or a numpy array
    load_ret          \* return value of load_coordinates() ("unset" before)

loadVars == <<input_file, coordinates, load_ret>>

\* ImageTSPOptimizer.run() taken alone (SpecPath).
VARIABLES
    gpc,              \* position of ImageTSPOptimizer.run
    image,            \* the image file: readable, grey levels of its pixels
    labels,           \* ImageTSPOptimizer.labels (one label per pixel)
    num_labels,       \* ImageTSPOptimizer.num_labels
    label_id,         \* loop variable of process_shapes
    all_paths_pixels, \* ImageTSPOptimizer.all_paths_pixels
    solved,           \* per label, what _solve_tsp_for_coords returned
    out_file,         \* the coordinate file written by save_optimized_path
    run_ret,          \* return value of ImageTSPOptimizer.run ("unset" before)
    step_size         \* ImageTSPOptimizer.step_size, in 1/10000 of a unit

genVars == <<gpc, image, labels, num_labels, label_id, all_paths_pixels,
             solved, out_file, run_ret, step_size>>

\* The two capabilities called directly, in any order.
VARIABLES
    dev_last,         \* the last capability call: what it was given and did
    dev_calls         \* capability calls made so far

devVars == <<dev_last, dev_calls>>

\* ExperimentRunner.run(), the sequencer of the command line program.
VARIABLES
    rpc,                \* position of ExperimentRunner.run
    run_success_status, \* local run_success_status of run()
    runner_ret,         \* return value of run() ("unset" before it returns)
    interrupted,        \* a KeyboardInterrupt was raised inside the try block
    start_at_origin     \* the argument of run()

seqVars == <<rpc, run_success_status, runner_ret, interrupted, start_at_origin>>

\* seconds_to_hms() taken alone.
VARIABLES
    seconds,          \* the argument, in 1/10 s
    hms               \* the returned (h, m, s); <<>> before the call

hmsVars == <<seconds, hms>>

\* The variables of the parts that are examined on their own.
aloneVars == <<devVars, seqVars, hmsVars>>

----------------------------------------------------------------------------
\* Hardware responses the environment can give.

\* Thorlabs.KinesisMotor(x), KinesisMotor(y) and the close() of the handler.
MotionConnectOutcomes == {"ok", "x_fails", "y_fails", "y_fails_close_raises"}
\* serial.Serial(...) opens or raises.
UVConnectOutcomes == {"ok", "fails"}
\* stage.move_to / wait_move return or raise.
MoveOutcomes == {"ok", "fails"}
\* serial.write + read_all: answered, executed but unanswered, or not delivered.
SerialOutcomes == {"ack", "silent", "lost"}

Cmd(c, s, ok) == [cmd |-> c, step |-> s, ok |-> ok]

CleanupCmds == {"uv_off", "uv_disconnect", "motion_disconnect"}

----------------------------------------------------------------------------
\* MotionSystem

MotionInit == [is_connected |-> FALSE, stage_x |-> FALSE, stage_y |-> FALSE]

\* MotionSystem.is_connected()
MotionIsConnected(m) == m.is_connected /\ m.stage_x /\ m.stage_y

\* MotionSystem.connect(): ret is "true", "false" or "raise" (the close() in
\* the except handler is not itself guarded).
MotionConnect(m, oc) ==
    IF m.is_connected THEN [m |-> m, ret |-> "true"]
    ELSE IF oc = "ok"
         THEN [m |-> [is_connected |-> TRUE, stage_x |-> TRUE, stage_y |-> TRUE],
               ret |-> "true"]
    ELSE LET sx == IF oc = "x_fails" THEN m.stage_x ELSE TRUE
         IN IF oc = "y_fails_close_raises" /\ sx
            THEN [m |-> [is_connected |-> FALSE, stage_x |-> sx, stage_y |-> m.stage_y],
                  ret |-> "raise"]
            ELSE [m |-> MotionInit, ret |-> "false"]

\* MotionSystem.disconnect(): a no-op when not connected, else the handles
\* are dropped whatever close() does.
MotionDisconnect(m) == IF ~m.is_connected THEN m ELSE MotionInit

\* A bool written as the models of return values hold it.
Ret(b) == IF b THEN "true" ELSE "false"

\* A call on a stage handle or on the serial port, and whether it returned.
Io(dev, op, ok) == [dev |-> dev, op |-> op, ok |-> ok]

\* The device calls of MotionSystem.connect(), in order: the two
\* KinesisMotor(...) up to the first that raises, then the close() calls of
\* the except handler on the handles the object holds at that moment.
MotionConnectCalls(m, oc) ==
    IF m.is_connected THEN <<>>
    ELSE IF oc = "ok" THEN <<Io("x", "open", TRUE), Io("y", "open", TRUE)>>
    ELSE IF oc = "x_fails"
    THEN <<Io("x", "open", FALSE)>>
         \o (IF m.stage_x THEN <<Io("x", "close", TRUE)>> ELSE <<>>)
         \o (IF m.stage_y THEN <<Io("y", "close", TRUE)>> ELSE <<>>)
    ELSE IF oc = "y_fails"
    THEN <<Io("x", "open", TRUE), Io("y", "open", FALSE), Io("x", "close", TRUE)>>
         \o (IF m.stage_y THEN <<Io("y", "close", TRUE)>> ELSE <<>>)
    ELSE <<Io("x", "open", TRUE), Io("y", "open", FALSE), Io("x", "close", FALSE)>>

\* The device calls of MotionSystem.disconnect(): both close() calls are in
\* one try block, so a close() of the X stage that raises skips the Y stage.
MotionDisconnectCalls(m, cl) ==
    IF ~m.is_connected THEN <<>>
    ELSE LET xr == m.stage_x /\ cl = "stage_x_close_raises"
         IN (IF m.stage_x THEN <<Io("x", "close", ~xr)>> ELSE <<>>)
            \o (IF m.stage_y /\ ~xr
                THEN <<Io("y", "close", cl # "stage_y_close_raises")>>
                ELSE <<>>)

\* MotionSystem.home(): as move_to_um, with home() in place of move_to().
MotionHome(m, oc) ==
    IF ~MotionIsConnected(m) THEN [ret |-> FALSE, commanded |-> FALSE]
    ELSE [ret |-> (oc = "ok"), commanded |-> TRUE]

\* MotionSystem.move_to_um(): commanded tells whether a stage was commanded.
MotionMove(m, oc) ==
    IF ~MotionIsConnected(m) THEN [ret |-> FALSE, commanded |-> FALSE]
    ELSE [ret |-> (oc = "ok"), commanded |-> TRUE]

----------------------------------------------------------------------------
\* UVcontroller

UVInit == [is_connected |-> FALSE, serial_open |-> FALSE]

\* UVcontroller.is_connected()
UVIsConnected(u) == u.is_connected /\ u.serial_open

\* UVcontroller.connect()
UVConnect(u, oc) ==
    IF u.serial_open THEN [u |-> [u EXCEPT !.is_connected = TRUE], ret |-> TRUE]
    ELSE IF oc = "ok" THEN [u |-> [is_connected |-> TRUE, serial_open |-> TRUE], ret |-> TRUE]
    ELSE [u |-> UVInit, ret |-> FALSE]

\* UVcontroller.disconnect()
UVDisconnect(u) == UVInit

\* Variant of send_command without the test of is_connected().
SendCommand_NoCheck(u, oc) ==
    [written |-> TRUE, executed |-> (oc \in {"ack", "silent"}),
     response |-> (oc = "ack")]

\* UVcontroller.send_command(): written = the bytes were handed to the port,
\* executed = the device acted on them, response = a non-empty answer.
SendCommand(u, oc) ==
    IF ~UVIsConnected(u)
    THEN [written |-> FALSE, executed |-> FALSE, response |-> FALSE]
    ELSE [written |-> TRUE, executed |-> (oc \in {"ack", "silent"}),
          response |-> (oc = "ack")]

\* UVcontroller.uv_on(): returns TRUE iff a response came back.
UvOnCmd(u, l, oc) ==
    LET r == SendCommand(u, oc)
    IN [ret |-> r.response, written |-> r.written,
        lamp |-> IF r.executed THEN "on" ELSE l]

\* UVcontroller.uv_off()
UvOffCmd(u, l, oc) ==
    LET r == SendCommand(u, oc)
    IN [ret |-> r.response, written |-> r.written,
        lamp |-> IF r.executed THEN "off" ELSE l]

----------------------------------------------------------------------------
\* ExperimentRunner

\* Variant of _connect_hardware without the teardown of the motion system
\* when the UV controller fails to connect.
connect_hardware_NoTeardown(m, u, mo, uo) ==
    LET mc == MotionConnect(m, mo)
        uc == UVConnect(u, uo)
    IN IF mc.ret # "true"
       THEN [m |-> mc.m, u |-> u, ret |-> mc.ret,
             cmds |-> <<Cmd("motion_connect", 0, FALSE)>>]
       ELSE IF ~uc.ret
       THEN [m |-> mc.m, u |-> uc.u, ret |-> "false",
             cmds |-> <<Cmd("motion_connect", 0, TRUE), Cmd("uv_connect", 0, FALSE)>>]
       ELSE [m |-> mc.m, u |-> uc.u, ret |-> "true",
             cmds |-> <<Cmd("motion_connect", 0, TRUE), Cmd("uv_connect", 0, TRUE)>>]

\* Variant of _connect_hardware that returns True as soon as the motion
\* system has connected, whatever the UV controller's connect() returned.
connect_hardware_MotionOnly(m, u, mo, uo) ==
    LET mc == MotionConnect(m, mo)
        uc == UVConnect(u, uo)
    IN IF mc.ret # "true"
       THEN [m |-> mc.m, u |-> u, ret |-> mc.ret,
             cmds |-> <<Cmd("motion_connect", 0, FALSE)>>]
       ELSE [m |-> mc.m, u |-> uc.u, ret |-> "true",
             cmds |-> <<Cmd("motion_connect", 0, TRUE), Cmd("uv_connect", 0, uc.ret)>>]

\* ExperimentRunner._connect_hardware(): motion first, then UV; cmds are the
\* capability calls it makes, in order.
connect_hardware(m, u, mo, uo) ==
    LET mc == MotionConnect(m, mo)
        uc == UVConnect(u, uo)
    IN IF mc.ret = "raise"
       THEN [m |-> mc.m, u |-> u, ret |-> "raise",
             cmds |-> <<Cmd("motion_connect", 0, FALSE)>>]
       ELSE IF mc.ret = "false"
       THEN [m |-> mc.m, u |-> u, ret |-> "false",
             cmds |-> <<Cmd("motion_connect", 0, FALSE)>>]
       ELSE IF ~uc.ret
       THEN [m |-> MotionDisconnect(mc.m), u |-> uc.u, ret |-> "false",
             cmds |-> <<Cmd("motion_connect", 0, TRUE), Cmd("uv_connect", 0, FALSE),
                        Cmd("motion_disconnect", 0, mc.m.is_connected)>>]
       ELSE IF ~MotionIsConnected(mc.m) \/ ~UVIsConnected(uc.u)
       THEN [m |-> MotionDisconnect(mc.m), u |-> UVDisconnect(uc.u), ret |-> "false",
             cmds |-> <<Cmd("motion_connect", 0, TRUE), Cmd("uv_connect", 0, TRUE),
                        Cmd("uv_disconnect", 0, uc.u.serial_open),
                        Cmd("motion_disconnect", 0, mc.m.is_connected)>>]
       ELSE [m |-> mc.m, u |-> uc.u, ret |-> "true",
             cmds |-> <<Cmd("motion_connect", 0, TRUE), Cmd("uv_connect", 0, TRUE)>>]

\* Variant of _disconnect_hardware with both disconnects nested under the
\* "UV controller is connected" test.
disconnect_hardware_OnlyIfUvConnected(m, u, l, oc) ==
    LET off == UvOffCmd(u, l, oc)
    IN IF ~UVIsConnected(u)
       THEN [m |-> m, u |-> u, lamp |-> l, cmds |-> <<>>]
       ELSE [m |-> MotionDisconnect(m),
             u |-> UVDisconnect(u),
             lamp |-> off.lamp,
             cmds |-> <<Cmd("uv_off", 0, off.ret),
                        Cmd("uv_disconnect", 0, u.serial_open),
                        Cmd("motion_disconnect", 0, m.is_connected)>>]

\* Variant of _disconnect_hardware that gives up when UV OFF is not answered,
\* leaving both capabilities connected.
disconnect_hardware_StopOnOffFailure(m, u, l, oc) ==
    LET off == UvOffCmd(u, l, oc)
    IN IF UVIsConnected(u) /\ ~off.ret
       THEN [m |-> m, u |-> u, lamp |-> off.lamp,
             cmds |-> <<Cmd("uv_off", 0, FALSE)>>]
       ELSE [m |-> MotionDisconnect(m),
             u |-> UVDisconnect(u),
             lamp |-> IF UVIsConnected(u) THEN off.lamp ELSE l,
             cmds |-> (IF UVIsConnected(u) THEN <<Cmd("uv_off", 0, off.ret)>> ELSE <<>>)
                      \o <<Cmd("uv_disconnect", 0, u.serial_open),
                           Cmd("motion_disconnect", 0, m.is_connected)>>]

\* ExperimentRunner._disconnect_hardware(): UV off (only through a connected
\* controller, its result only logged), UV disconnect, motion disconnect.
disconnect_hardware(m, u, l, oc) ==
    LET off == UvOffCmd(u, l, oc)
        offCmds == IF UVIsConnected(u) THEN <<Cmd("uv_off", 0, off.ret)>> ELSE <<>>
    IN [m |-> MotionDisconnect(m),
        u |-> UVDisconnect(u),
        lamp |-> IF UVIsConnected(u) THEN off.lamp ELSE l,
        cmds |-> offCmds \o <<Cmd("uv_disconnect", 0, u.serial_open),
                              Cmd("motion_disconnect", 0, m.is_connected)>>]

----------------------------------------------------------------------------
\* ExperimentRunner.load_coordinates

\* Largest number of rows, and of comma-separated fields in a row, of a
\* coordinate file handed to load_coordinates.
MaxRows == 4
MaxFields == 3

\* A file is absent, or a sequence of rows; a row is the sequence of its
\* comma-separated fields, a field the decimal numeral it holds, given in
\* thousandths ("150.000" is 150000).
File(exists, rows) == [exists |-> exists, rows |-> rows]
NoFile == File(FALSE, <<>>)

\* A row of f fields "0.000".
Row(f) == [j \in 1..f |-> 0]

RowSeqs(n) == UNION {[1..k -> {Row(f) : f \in 1..MaxFields}] : k \in 0..n}

Files == {NoFile} \cup {File(TRUE, r) : r \in RowSeqs(MaxRows)}

\* self.coordinates: None, or a numpy array given by its shape and its
\* elements in row-major order (floats, in 1/10000 of a unit).
None == [none |-> TRUE, shape |-> <<>>, values |-> <<>>]
Array(shape, values) == [none |-> FALSE, shape |-> shape, values |-> values]

\* float() of a field: the numeral's value.
ParseField(t) == t * 10

\* np.loadtxt(file, delimiter=','): rows of unequal length raise ValueError;
\* otherwise the r x c table is returned with its axes of length 1 removed
\* (no row at all gives an empty 1-D array).
Loadtxt(rows) ==
    LET r == Len(rows)
        c == IF r = 0 THEN 0 ELSE Len(rows[1])
    IN IF \E k \in 1..r : Len(rows[k]) # c
       THEN [raise |-> TRUE, shape |-> <<>>, values |-> <<>>]
       ELSE [raise |-> FALSE,
             shape |-> IF r = 0 THEN <<0>>
                       ELSE IF r = 1 /\ c = 1 THEN <<>>
                       ELSE IF r = 1 THEN <<c>>
                       ELSE IF c = 1 THEN <<r>>
                       ELSE <<r, c>>,
             values |-> [j \in 1..(r * c) |->
                           ParseField(rows[((j - 1) \div c) + 1][((j - 1) % c) + 1])]]

\* Variant of load_coordinates without the reshape of a 1-D array.
load_coordinates_NoReshape(f, coords, steps) ==
    IF ~f.exists
    THEN [coordinates |-> coords, total_steps |-> steps, ret |-> FALSE]
    ELSE LET a == Loadtxt(f.rows)
         IN IF a.raise \/ Len(a.shape) # 2 \/ a.shape[2] < 2
            THEN [coordinates |-> None, total_steps |-> 0, ret |-> FALSE]
            ELSE [coordinates |-> Array(a.shape, a.values),
                  total_steps |-> a.shape[1], ret |-> TRUE]

\* ExperimentRunner.load_coordinates(): the fields it leaves and its result.
load_coordinates(f, coords, steps) ==
    IF ~f.exists
    THEN [coordinates |-> coords, total_steps |-> steps, ret |-> FALSE]
    ELSE LET a == Loadtxt(f.rows)
             sh == IF Len(a.shape) = 1 /\ a.shape[1] >= 2
                   THEN <<1, a.shape[1]>>
                   ELSE a.shape
         IN IF a.raise \/ Len(sh) # 2 \/ sh[2] < 2
            THEN [coordinates |-> None, total_steps |-> 0, ret |-> FALSE]
            ELSE IF sh[1] = 0
            THEN [coordinates |-> Array(sh, a.values), total_steps |-> 0,
                  ret |-> FALSE]
            ELSE [coordinates |-> Array(sh, a.values), total_steps |-> sh[1],
                  ret |-> TRUE]

\* The runner's loading state while another part of the program is examined.
LoadIdle ==
    /\ input_file = NoFile
    /\ coordinates = None
    /\ load_ret = "unset"

----------------------------------------------------------------------------
\* ImageTSPOptimizer

\* Width of the one-row grey-level images given to the path generator.
MaxWidth == 4

\* Default of threshold_image(threshold_value) and the configured step size.
threshold_value == 128
PATH_GEN_STEP_SIZE == 50

GreyLevels == {0, threshold_value, 255}

Image(readable, pixels) == [readable |-> readable, pixels |-> pixels]
Images == {Image(FALSE, <<>>)}
          \cup {Image(TRUE, px) : px \in [1..MaxWidth -> GreyLevels]}

\* cv2.threshold(img, threshold_value, 255, THRESH_BINARY)
Threshold(px) == [c \in DOMAIN px |-> IF px[c] > threshold_value THEN 255 ELSE 0]

\* cv2.connectedComponents(binary, connectivity=8) on a one-row image: each
\* maximal run of white pixels is a shape, numbered from 1 in scan order.
RunStarts(bin, c) ==
    {k \in 1..c : bin[k] = 255 /\ (k = 1 \/ bin[k - 1] = 0)}
ConnectedComponents(bin) ==
    [num_labels |-> Cardinality(RunStarts(bin, Len(bin))) + 1,
     labels |-> [c \in DOMAIN bin |->
                   IF bin[c] = 0 THEN 0 ELSE Cardinality(RunStarts(bin, c))]]

\* np.column_stack(np.where(labels == label_id)): the (row, col) pairs of the
\* label's pixels in row-major order, indices counted from 0.
ShapeCoords(lab, id) ==
    LET cols == SelectSeq([c \in 1..Len(lab) |-> c], LAMBDA c : lab[c] = id)
    IN [k \in 1..Len(cols) |-> <<0, cols[k] - 1>>]

\* What routing.SolveWithParameters can give for k nodes: an exception, no
\* solution, or an assignment whose NextVar values lead from the start (the
\* depot, node 1 here) through every node once to the end index k + 1.
Orders(k) ==
    {o \in [1..k -> 1..k] : o[1] = 1 /\ \A a, b \in 1..k : a # b => o[a] # o[b]}
NextVar(o) ==
    LET k == Len(o)
        pos(n) == CHOOSE j \in 1..k : o[j] = n
    IN [n \in 1..k |-> IF pos(n) = k THEN k + 1 ELSE o[pos(n) + 1]]
SolverOutcomes(k) ==
    {[kind |-> "raise", next |-> <<>>], [kind |-> "no_solution", next |-> <<>>]}
    \cup {[kind |-> "solution", next |-> NextVar(o)] : o \in Orders(k)}

\* int_distances: the Euclidean distance of two pixels rounded to the nearest
\* integer (a square root of an integer is never halfway).
Dist(p, q) ==
    LET sq == ((p[1] - q[1]) * (p[1] - q[1])) + ((p[2] - q[2]) * (p[2] - q[2]))
    IN CHOOSE d \in 0..(sq + 1) :
         /\ 4 * sq < ((2 * d) + 1) * ((2 * d) + 1)
         /\ \A e \in 0..(d - 1) : 4 * sq >= ((2 * e) + 1) * ((2 * e) + 1)

\* manager.IndexToNode for RoutingIndexManager(num_coords, 1, 0): one vehicle
\* whose start and end are node 0, here node 1; the end has index k + 1.
IndexToNode(index, k) == IF index = k + 1 THEN 1 ELSE index

\* Variant of distance_callback that charges nothing for the arc to the end
\* of the route.
distance_callback_NoReturn(coords, from_index, to_index) ==
    IF to_index = Len(coords) + 1 THEN 0
    ELSE Dist(coords[IndexToNode(from_index, Len(coords))],
              coords[IndexToNode(to_index, Len(coords))])

\* distance_callback(from_index, to_index), the arc cost evaluator.
distance_callback(coords, from_index, to_index) ==
    Dist(coords[IndexToNode(from_index, Len(coords))],
         coords[IndexToNode(to_index, Len(coords))])

\* The cost the routing model gives a solution: the arc cost of every arc
\* of the vehicle's route from index to its end.
RECURSIVE RouteCost(_, _, _)
RouteCost(coords, next, index) ==
    IF index = Len(coords) + 1 THEN 0
    ELSE distance_callback(coords, index, next[index])
         + RouteCost(coords, next, next[index])

\* A returned list, or Python's None.
Path(points) == [none |-> FALSE, path |-> points]
NoPath == [none |-> TRUE, path |-> <<>>]

\* The loop "while not routing.IsEnd(index)" of _solve_tsp_for_coords.
RECURSIVE RouteIndices(_, _, _)
RouteIndices(next, index, end) ==
    IF index = end THEN <<>>
    ELSE <<index>> \o RouteIndices(next, next[index], end)

\* Variant of _solve_tsp_for_coords whose walk starts at the successor of
\* the start node.
solve_tsp_for_coords_SkipStart(coords, oc) ==
    IF Len(coords) <= 1 THEN Path(coords)
    ELSE IF oc.kind = "solution"
    THEN LET route == RouteIndices(oc.next, oc.next[1], Len(coords) + 1)
         IN Path([j \in 1..Len(route) |-> coords[route[j]]])
    ELSE NoPath

\* Variant of _solve_tsp_for_coords that hands every shape to the solver.
solve_tsp_for_coords_AlwaysSearch(coords, oc) ==
    IF oc.kind = "solution"
    THEN LET route == RouteIndices(oc.next, 1, Len(coords) + 1)
         IN Path([j \in 1..Len(route) |-> coords[route[j]]])
    ELSE NoPath

\* ImageTSPOptimizer._solve_tsp_for_coords(coords): the points in the order
\* of the solver's route, or None when there is no solution or an exception.
solve_tsp_for_coords(coords, oc) ==
    IF Len(coords) <= 1 THEN Path(coords)
    ELSE IF oc.kind = "solution"
    THEN LET route == RouteIndices(oc.next, 1, Len(coords) + 1)
         IN Path([j \in 1..Len(route) |-> coords[route[j]]])
    ELSE NoPath

\* "if optimized_path_pixels:" is false for None and for an empty list.
Truthy(r) == ~r.none /\ Len(r.path) > 0

\* Variant of the loop body of process_shapes that puts a solved path in
\* front of the global path.
extend_paths_Prepend(all, r) == IF Truthy(r) THEN r.path \o all ELSE all

\* Loop body of process_shapes: extend the global path, or skip the shape.
extend_paths(all, r) == IF Truthy(r) THEN all \o r.path ELSE all

\* The coordinate file as the path generator sees it: whether open(.., 'w')
\* succeeds, whether the file exists, and its rows.
OutFile(writable, exists, rows) ==
    [writable |-> writable, exists |-> exists, rows |-> rows]

\* f"{v:.3f}" of a non-negative float v (in 1/10000): the numeral of the
\* nearest thousandth. A v that lies halfway as a decimal is stored as a
\* binary float slightly above or below, which decides the direction: up.
Format3(v, up) ==
    LET q == v \div 10
        r == v % 10
    IN IF r > 5 \/ (r = 5 /\ up) THEN q + 1 ELSE q

\* Variant of save_optimized_path for which an empty path is a success: it
\* writes a file without rows.
save_optimized_path_EmptyOk(all, f, step, up) ==
    IF ~f.writable THEN [ret |-> FALSE, file |-> f]
    ELSE [ret |-> TRUE,
          file |-> OutFile(TRUE, TRUE,
                     [k \in 1..Len(all) |->
                        <<Format3(all[k][2] * step, up),
                          Format3(all[k][1] * step, up)>>])]

\* Variant of save_optimized_path that writes the row coordinate first.
save_optimized_path_RowFirst(all, f, step, up) ==
    IF Len(all) = 0 THEN [ret |-> FALSE, file |-> f]
    ELSE IF ~f.writable THEN [ret |-> FALSE, file |-> f]
    ELSE [ret |-> TRUE,
          file |-> OutFile(TRUE, TRUE,
                     [k \in 1..Len(all) |->
                        <<Format3(all[k][1] * step, up),
                          Format3(all[k][2] * step, up)>>])]

\* ImageTSPOptimizer.save_optimized_path(): nothing is written for an empty
\* path; a row is "x,y" with x = col * step_size and y = row * step_size.
save_optimized_path(all, f, step, up) ==
    IF Len(all) = 0 THEN [ret |-> FALSE, file |-> f]
    ELSE IF ~f.writable THEN [ret |-> FALSE, file |-> f]
    ELSE [ret |-> TRUE,
          file |-> OutFile(TRUE, TRUE,
                     [k \in 1..Len(all) |->
                        <<Format3(all[k][2] * step, up),
                          Format3(all[k][1] * step, up)>>])]

\* The path generator while another part of the program is examined.
GenIdle ==
    /\ gpc = "idle"
    /\ image = Image(FALSE, <<>>)
    /\ labels = <<>>
    /\ num_labels = 0
    /\ label_id = 0
    /\ all_paths_pixels = <<>>
    /\ solved = <<>>
    /\ out_file = OutFile(FALSE, FALSE, <<>>)
    /\ run_ret = "unset"
    /\ step_size = PATH_GEN_STEP_SIZE * 10000

----------------------------------------------------------------------------
\* ExperimentWorker

\* Times are in tenths of a second: the default cure time (3.0 s) and the
\* two overheads of the configuration (1.0 s and 0.5 s).
DEFAULT_CURE_TIME_S == 30
UV_COMMAND_OVERHEAD_S == 10
MOVE_PROCESS_OVERHEAD_S == 5

\* Longest time a move takes, in tenths of a second.
MaxMoveTime == 2
MoveTimes == 1..MaxMoveTime

\* A float kept as an exact quotient.
Quotient(num, den) == [num |-> num, den |-> den]

\* Variant of estimate_duration that counts the UV command overhead once.
estimate_duration_OneUvCommand(steps, cure, move, uvo) ==
    IF steps <= 0 THEN 0
    ELSE (steps * (cure + move)) + uvo

\* ExperimentRunner.estimate_duration()
estimate_duration(steps, cure, move, uvo) ==
    IF steps <= 0 THEN 0
    ELSE (steps * (cure + move)) + uvo + uvo

\* remaining_steps * avg_step_time of iteration k of n, e being the
\* elapsed_time read in that iteration (k >= 1: enumerate starts at 1).
RemainingEstimate(n, k, e) == Quotient((n - k) * e, k)

\* What close() of the serial port and of the two stages does during the
\* disconnects.
CloseOutcomes == {"ok", "serial_close_raises", "stage_x_close_raises",
                  "stage_y_close_raises"}

\* The failures the calls of _disconnect_hardware() meet and log: an
\* exception of close() is caught inside the capability that called it.
CleanupFaults(m, u, cl) ==
    (IF u.serial_open /\ cl = "serial_close_raises" THEN {"uv_disconnect"} ELSE {})
    \cup (IF m.is_connected /\ m.stage_x /\ cl = "stage_x_close_raises"
          THEN {"motion_disconnect"} ELSE {})
    \cup (IF m.is_connected /\ m.stage_y /\ cl = "stage_y_close_raises"
          THEN {"motion_disconnect"} ELSE {})

\* No earlier run.
NoRun == [none |-> TRUE]

\* ExperimentWorker.emit_progress()
Emit(prog, p) == IF is_running THEN Append(prog, p) ELSE prog

\* Variant of Percentage that rounds to the nearest integer.
Percentage_Rounded(k, n) == (200 * k + n) \div (2 * n)

\* percentage = int((i / total_steps) * 100): truncation, which for the step
\* counts of the model equals the floor of the exact quotient.
Percentage(k, n) == (k * 100) \div n

Msg(kind, detail, step) == [kind |-> kind, detail |-> detail, step |-> step]

\* Variant of Aborted in which the InterruptedError is caught by the
\* "except Exception" handler.
Aborted_AsError(detail, prog) ==
    /\ final_message' = Msg("Error during execution", detail, 0)
    /\ overall_success' = FALSE
    /\ progress' = Emit(prog, 0)
    /\ polledAt' = Len(log')
    /\ cleanups' = cleanups
    /\ pc' = "finally"

\* raise InterruptedError(...) caught by "except InterruptedError": the poll
\* that raised it saw the log as this action leaves it.
Aborted(detail, prog) ==
    /\ final_message' = Msg("Process Aborted", detail, 0)
    /\ overall_success' = FALSE
    /\ progress' = prog
    /\ polledAt' = Len(log')
    /\ cleanups' = cleanups
    /\ pc' = "finally"

\* raise RuntimeError(...) (or an exception out of a call) caught by
\* "except Exception", which also emits a 0% ERROR event.
Failed(detail, step, prog) ==
    /\ final_message' = Msg("Error during execution", detail, step)
    /\ overall_success' = FALSE
    /\ progress' = Emit(prog, 0)
    /\ polledAt' = polledAt
    /\ cleanups' = cleanups
    /\ pc' = "finally"

\* No exception: run() goes on to its next blocking operation.
GoOn(next, prog) ==
    /\ pc' = next
    /\ progress' = prog
    /\ UNCHANGED <<final_message, overall_success, polledAt, cleanups>>

\* No capability call made yet.
NoCall ==
    [op |-> "none", motion |-> MotionInit, uv |-> UVInit, ret |-> "none",
     calls |-> <<>>]

\* The parts examined on their own, while another part is.
AloneIdle ==
    /\ dev_last = NoCall
    /\ dev_calls = 0
    /\ rpc = "idle"
    /\ run_success_status = FALSE
    /\ runner_ret = "unset"
    /\ interrupted = FALSE
    /\ start_at_origin = TRUE
    /\ seconds = 0
    /\ hms = <<>>

\* ExperimentWorker.__init__ and ExperimentRunner.__init__.
Constructed ==
    /\ pc = "start"
    /\ abort_requested = FALSE
    /\ is_running = TRUE
    /\ overall_success = FALSE
    /\ final_message = Msg("Process started...", "", 0)
    /\ runner = FALSE
    /\ total_steps = 0
    /\ i = 0
    /\ motion = MotionInit
    /\ uv = UVInit
    /\ lamp = "off"
    /\ log = <<>>
    /\ progress = <<>>
    /\ finished = <<>>
    /\ stopPc = "none"
    /\ stopStep = 0
    /\ polledAt = -1
    /\ cleanups = 0
    /\ path_gen_success = "unset"
    /\ estimated_total_seconds = -1
    /\ elapsed_time = 0
    /\ estimated_remaining_sec = Quotient(0, 1)
    /\ cleanup_faults = {}

\* One worker built by hand with the configured cure time and overheads; no
\* window, no earlier run.
Standalone ==
    /\ cure_time_s = DEFAULT_CURE_TIME_S
    /\ uv_command_overhead_s = UV_COMMAND_OVERHEAD_S
    /\ move_process_overhead_s = MOVE_PROCESS_OVERHEAD_S
    /\ start_button_enabled = FALSE
    /\ worker_thread = FALSE
    /\ launches = 0
    /\ first = NoRun

Init ==
    /\ AloneIdle
    /\ Constructed
    /\ Standalone
    /\ LoadIdle
    /\ GenIdle

\* ExperimentWorker.stop(), called from the GUI thread while the worker runs
\* (stop_experiment disables the stop button after the first request).
Stop ==
    /\ pc \notin {"idle", "done"}
    /\ UNCHANGED <<loadVars, genVars, envVars, aloneVars>>
    /\ UNCHANGED <<estimated_total_seconds, elapsed_time,
                   estimated_remaining_sec, cleanup_faults>>
    /\ ~abort_requested
    /\ abort_requested' = TRUE
    /\ stopPc' = pc
    /\ stopStep' = IF pc \in {"move", "cure"} THEN i ELSE 0
    /\ UNCHANGED <<pc, is_running, overall_success, final_message, runner,
                   total_steps, i, motion, uv, lamp, log, progress, finished,
                   polledAt, cleanups, path_gen_success>>

\* Variant of Start without the poll before path generation.
Start_NoPoll ==
    /\ pc = "start"
    /\ UNCHANGED <<loadVars, genVars, envVars, aloneVars>>
    /\ UNCHANGED <<estimated_total_seconds, elapsed_time,
                   estimated_remaining_sec, cleanup_faults>>
    /\ UNCHANGED <<abort_requested, is_running, runner, total_steps, i, motion,
                   uv, lamp, log, finished, stopPc, stopStep, path_gen_success>>
    /\ GoOn("pathgen", Emit(progress, 0))

\* run(): first progress event and the poll before path generation.
Start ==
    /\ pc = "start"
    /\ UNCHANGED <<loadVars, genVars, envVars, aloneVars>>
    /\ UNCHANGED <<estimated_total_seconds, elapsed_time,
                   estimated_remaining_sec, cleanup_faults>>
    /\ UNCHANGED <<abort_requested, is_running, runner, total_steps, i, motion,
                   uv, lamp, log, finished, stopPc, stopStep, path_gen_success>>
    /\ IF abort_requested
       THEN Aborted("before path generation", Emit(progress, 0))
       ELSE GoOn("pathgen", Emit(progress, 0))

\* Variant of PathGen that does not test the result of path_optimizer.run().
PathGen_IgnoreResult ==
    /\ pc = "pathgen"
    /\ UNCHANGED <<loadVars, genVars, envVars, aloneVars>>
    /\ UNCHANGED <<estimated_total_seconds, elapsed_time,
                   estimated_remaining_sec, cleanup_faults>>
    /\ UNCHANGED <<abort_requested, is_running, total_steps, i, motion, uv,
                   lamp, log, finished, stopPc, stopStep>>
    /\ \E success \in BOOLEAN :
         /\ path_gen_success' = IF success THEN "true" ELSE "false"
         /\ IF abort_requested
            THEN /\ Aborted("after path generation", progress)
                 /\ runner' = runner
            ELSE /\ GoOn("load", Emit(Emit(Emit(progress, 10), 10), 15))
                 /\ runner' = TRUE

\* run(): path_optimizer.run(), the poll after it, then the construction of
\* the controllers and of the runner.
PathGen ==
    /\ pc = "pathgen"
    /\ UNCHANGED <<loadVars, genVars, envVars, aloneVars>>
    /\ UNCHANGED <<estimated_total_seconds, elapsed_time,
                   estimated_remaining_sec, cleanup_faults>>
    /\ UNCHANGED <<abort_requested, is_running, total_steps, i, motion, uv,
                   lamp, log, finished, stopPc, stopStep>>
    /\ \E success \in BOOLEAN :
         /\ path_gen_success' = IF success THEN "true" ELSE "false"
         /\ IF ~success
            THEN /\ Failed("Path generation failed", 0, progress)
                 /\ runner' = runner
            ELSE IF abort_requested
            THEN /\ Aborted("after path generation", progress)
                 /\ runner' = runner
            ELSE /\ GoOn("load", Emit(Emit(Emit(progress, 10), 10), 15))
                 /\ runner' = TRUE

\* Variant of Load that gives up a run estimated at more than 10 s.
Load_RefuseLongRun ==
    /\ pc = "load"
    /\ UNCHANGED <<loadVars, genVars, envVars, aloneVars>>
    /\ UNCHANGED <<elapsed_time, estimated_remaining_sec, cleanup_faults>>
    /\ UNCHANGED <<abort_requested, is_running, runner, i, motion, uv, lamp,
                   log, finished, stopPc, stopStep, path_gen_success>>
    /\ \E rows \in 0..MaxSteps :
         LET p1 == Emit(progress, 15)
             p2 == Emit(Emit(p1, 15), 20)
         IN IF rows = 0
            THEN /\ Failed("Failed to load generated coordinates", 0, p1)
                 /\ total_steps' = 0
                 /\ estimated_total_seconds' = estimated_total_seconds
            ELSE /\ total_steps' = rows
                 /\ estimated_total_seconds' =
                       estimate_duration(rows, cure_time_s,
                                         move_process_overhead_s,
                                         uv_command_overhead_s)
                 /\ IF estimated_total_seconds' > 100
                    THEN Failed("Run too long", 0, p2)
                    ELSE IF abort_requested
                    THEN Aborted("before hardware connect", p2)
                    ELSE GoOn("connect", p2)

\* run(): load_coordinates(), estimate_duration(), and the poll before the
\* hardware is connected.  rows = 0 stands for a failed load.
Load ==
    /\ pc = "load"
    /\ UNCHANGED <<loadVars, genVars, envVars, aloneVars>>
    /\ UNCHANGED <<elapsed_time, estimated_remaining_sec, cleanup_faults>>
    /\ UNCHANGED <<abort_requested, is_running, runner, i, motion, uv, lamp,
                   log, finished, stopPc, stopStep, path_gen_success>>
    /\ \E rows \in 0..MaxSteps :
         LET p1 == Emit(progress, 15)
             p2 == Emit(Emit(p1, 15), 20)
         IN IF rows = 0
            THEN /\ Failed("Failed to load generated coordinates", 0, p1)
                 /\ total_steps' = 0
                 /\ estimated_total_seconds' = estimated_total_seconds
            ELSE /\ total_steps' = rows
                 /\ estimated_total_seconds' =
                       estimate_duration(rows, cure_time_s,
                                         move_process_overhead_s,
                                         uv_command_overhead_s)
                 /\ IF abort_requested
                    THEN Aborted("before hardware connect", p2)
                    ELSE GoOn("connect", p2)

\* run(): runner._connect_hardware() and the poll before homing.
ConnectHardware ==
    /\ pc = "connect"
    /\ UNCHANGED <<loadVars, genVars, envVars, aloneVars>>
    /\ UNCHANGED <<estimated_total_seconds, elapsed_time,
                   estimated_remaining_sec, cleanup_faults>>
    /\ UNCHANGED <<abort_requested, is_running, runner, total_steps, i, lamp,
                   finished, stopPc, stopStep, path_gen_success>>
    /\ \E mo \in MotionConnectOutcomes, uo \in UVConnectOutcomes :
         LET c == connect_hardware(motion, uv, mo, uo)
         IN /\ motion' = c.m
            /\ uv' = c.u
            /\ log' = log \o c.cmds
            /\ IF c.ret = "raise"
               THEN Failed("connect raised", 0, progress)
               ELSE IF c.ret = "false"
               THEN Failed("Failed to connect hardware", 0, progress)
               ELSE IF abort_requested
               THEN Aborted("before homing", Emit(progress, 25))
               ELSE GoOn("home", Emit(progress, 25))

\* Variant of Home that does not test the result of the move to the origin.
Home_IgnoreFailure ==
    /\ pc = "home"
    /\ UNCHANGED <<loadVars, genVars, envVars, aloneVars>>
    /\ UNCHANGED <<estimated_total_seconds, elapsed_time,
                   estimated_remaining_sec, cleanup_faults>>
    /\ UNCHANGED <<abort_requested, is_running, runner, total_steps, i, motion,
                   uv, lamp, finished, stopPc, stopStep, path_gen_success>>
    /\ \E oc \in MoveOutcomes :
         LET mv == MotionMove(motion, oc)
         IN /\ log' = IF mv.commanded THEN Append(log, Cmd("move", 0, mv.ret)) ELSE log
            /\ IF abort_requested
               THEN Aborted("before UV ON", Emit(progress, 30))
               ELSE GoOn("uvon", Emit(progress, 30))

\* run(): move_to_um(0, 0) and the poll before UV ON.
Home ==
    /\ pc = "home"
    /\ UNCHANGED <<loadVars, genVars, envVars, aloneVars>>
    /\ UNCHANGED <<estimated_total_seconds, elapsed_time,
                   estimated_remaining_sec, cleanup_faults>>
    /\ UNCHANGED <<abort_requested, is_running, runner, total_steps, i, motion,
                   uv, lamp, finished, stopPc, stopStep, path_gen_success>>
    /\ \E oc \in MoveOutcomes :
         LET mv == MotionMove(motion, oc)
         IN /\ log' = IF mv.commanded THEN Append(log, Cmd("move", 0, mv.ret)) ELSE log
            /\ IF ~mv.ret
               THEN Failed("Failed to move to origin", 0, progress)
               ELSE IF abort_requested
               THEN Aborted("before UV ON", Emit(progress, 30))
               ELSE GoOn("uvon", Emit(progress, 30))

\* run(): uv_controller.uv_on(); on success the stepping loop is entered.
UvOn ==
    /\ pc = "uvon"
    /\ UNCHANGED <<loadVars, genVars, envVars, aloneVars>>
    /\ UNCHANGED <<estimated_total_seconds, elapsed_time,
                   estimated_remaining_sec, cleanup_faults>>
    /\ UNCHANGED <<abort_requested, is_running, runner, total_steps, motion, uv,
                   finished, stopPc, stopStep, path_gen_success>>
    /\ \E oc \in SerialOutcomes :
         LET on == UvOnCmd(uv, lamp, oc)
         IN /\ lamp' = on.lamp
            /\ log' = IF on.written THEN Append(log, Cmd("uv_on", 0, on.ret)) ELSE log
            /\ IF ~on.ret
               THEN Failed("Failed to turn UV light ON", 0, progress) /\ i' = i
               ELSE GoOn("poll", progress) /\ i' = 1

\* Variant of StepPoll that never reads the cancellation flag.
StepPoll_NoPoll ==
    /\ pc = "poll"
    /\ UNCHANGED <<loadVars, genVars, envVars, aloneVars>>
    /\ UNCHANGED <<estimated_total_seconds, elapsed_time, cleanup_faults>>
    /\ estimated_remaining_sec' = RemainingEstimate(total_steps, i, elapsed_time)
    /\ UNCHANGED <<abort_requested, is_running, runner, total_steps, i, motion,
                   uv, lamp, log, finished, stopPc, stopStep, path_gen_success>>
    /\ GoOn("move", Emit(progress, Percentage(i, total_steps)))

\* Top of loop iteration i: the poll, then the step's progress event.
StepPoll ==
    /\ pc = "poll"
    /\ UNCHANGED <<loadVars, genVars, envVars, aloneVars>>
    /\ UNCHANGED <<estimated_total_seconds, elapsed_time, cleanup_faults>>
    /\ UNCHANGED <<abort_requested, is_running, runner, total_steps, i, motion,
                   uv, lamp, log, finished, stopPc, stopStep, path_gen_success>>
    /\ IF abort_requested
       THEN /\ Aborted("Experiment aborted by user.", progress)
            /\ estimated_remaining_sec' = estimated_remaining_sec
       ELSE /\ GoOn("move", Emit(progress, Percentage(i, total_steps)))
            /\ estimated_remaining_sec' =
                  RemainingEstimate(total_steps, i, elapsed_time)

\* Variant of StepMove that does not test the result of move_to_um.
StepMove_IgnoreFailure ==
    /\ pc = "move"
    /\ UNCHANGED <<loadVars, genVars, envVars, aloneVars>>
    /\ UNCHANGED <<estimated_total_seconds, estimated_remaining_sec, cleanup_faults>>
    /\ \E d \in MoveTimes : elapsed_time' = elapsed_time + d
    /\ UNCHANGED <<abort_requested, is_running, runner, total_steps, i, motion,
                   uv, lamp, finished, stopPc, stopStep, path_gen_success>>
    /\ \E oc \in MoveOutcomes :
         LET mv == MotionMove(motion, oc)
         IN /\ log' = IF mv.commanded THEN Append(log, Cmd("move", i, mv.ret)) ELSE log
            /\ GoOn("cure", progress)

\* Iteration i: move_to_um(x, y), blocking until the move ends or fails.
StepMove ==
    /\ pc = "move"
    /\ UNCHANGED <<loadVars, genVars, envVars, aloneVars>>
    /\ UNCHANGED <<estimated_total_seconds, estimated_remaining_sec, cleanup_faults>>
    /\ \E d \in MoveTimes : elapsed_time' = elapsed_time + d
    /\ UNCHANGED <<abort_requested, is_running, runner, total_steps, i, motion,
                   uv, lamp, finished, stopPc, stopStep, path_gen_success>>
    /\ \E oc \in MoveOutcomes :
         LET mv == MotionMove(motion, oc)
         IN /\ log' = IF mv.commanded THEN Append(log, Cmd("move", i, mv.ret)) ELSE log
            /\ IF ~mv.ret
               THEN Failed("Motion failed step", i, progress)
               ELSE GoOn("cure", progress)

\* Variant of StepCure whose wait is cut short by a pending cancellation.
StepCure_Interruptible ==
    /\ pc = "cure"
    /\ UNCHANGED <<loadVars, genVars, envVars, aloneVars>>
    /\ UNCHANGED <<estimated_total_seconds, estimated_remaining_sec, cleanup_faults>>
    /\ elapsed_time' = elapsed_time + cure_time_s
    /\ UNCHANGED <<abort_requested, is_running, runner, total_steps, motion, uv,
                   lamp, finished, stopPc, stopStep, path_gen_success>>
    /\ IF abort_requested
       THEN /\ log' = log
            /\ i' = i
            /\ Aborted("Experiment aborted by user.", progress)
       ELSE /\ log' = Append(log, Cmd("cure", i, TRUE))
            /\ polledAt' = polledAt
            /\ cleanups' = cleanups
            /\ IF i < total_steps
               THEN /\ i' = i + 1
                    /\ pc' = "poll"
                    /\ UNCHANGED <<overall_success, final_message, progress>>
               ELSE /\ i' = i
                    /\ overall_success' = TRUE
                    /\ final_message' = Msg("Experiment completed successfully.", "", 0)
                    /\ progress' = Emit(progress, 100)
                    /\ pc' = "finally"

\* Variant of StepCure that switches the UV source off after each cure wait.
StepCure_ToggleUv ==
    /\ pc = "cure"
    /\ UNCHANGED <<loadVars, genVars, envVars, aloneVars>>
    /\ UNCHANGED <<estimated_total_seconds, estimated_remaining_sec, cleanup_faults>>
    /\ elapsed_time' = elapsed_time + cure_time_s
    /\ UNCHANGED <<abort_requested, is_running, runner, total_steps, motion, uv,
                   finished, stopPc, stopStep, path_gen_success, polledAt,
                   cleanups>>
    /\ \E oc \in SerialOutcomes :
         LET off == UvOffCmd(uv, lamp, oc)
         IN /\ lamp' = off.lamp
            /\ log' = log \o <<Cmd("cure", i, TRUE), Cmd("uv_off", 0, off.ret)>>
    /\ IF i < total_steps
       THEN /\ i' = i + 1
            /\ pc' = "poll"
            /\ UNCHANGED <<overall_success, final_message, progress>>
       ELSE /\ i' = i
            /\ overall_success' = TRUE
            /\ final_message' = Msg("Experiment completed successfully.", "", 0)
            /\ progress' = Emit(progress, 100)
            /\ pc' = "finally"

\* Iteration i: time.sleep(cure_time_s); after the last iteration the loop
\* ends without a further poll and the run is marked successful.
StepCure ==
    /\ pc = "cure"
    /\ UNCHANGED <<loadVars, genVars, envVars, aloneVars>>
    /\ UNCHANGED <<estimated_total_seconds, estimated_remaining_sec, cleanup_faults>>
    /\ elapsed_time' = elapsed_time + cure_time_s
    /\ UNCHANGED <<abort_requested, is_running, runner, total_steps, motion, uv,
                   lamp, finished, stopPc, stopStep, path_gen_success, polledAt,
                   cleanups>>
    /\ log' = Append(log, Cmd("cure", i, TRUE))
    /\ IF i < total_steps
       THEN /\ i' = i + 1
            /\ pc' = "poll"
            /\ UNCHANGED <<overall_success, final_message, progress>>
       ELSE /\ i' = i
            /\ overall_success' = TRUE
            /\ final_message' = Msg("Experiment completed successfully.", "", 0)
            /\ progress' = Emit(progress, 100)
            /\ pc' = "finally"

\* Variant of Finally that disconnects the hardware only after a successful
\* run.
Finally_CleanupOnSuccessOnly ==
    /\ pc = "finally"
    /\ UNCHANGED <<loadVars, genVars, envVars, aloneVars>>
    /\ UNCHANGED <<estimated_total_seconds, elapsed_time, estimated_remaining_sec>>
    /\ \E cl \in CloseOutcomes :
         cleanup_faults' = IF runner /\ overall_success
                           THEN CleanupFaults(motion, uv, cl) ELSE {}
    /\ UNCHANGED <<abort_requested, overall_success, final_message, runner,
                   total_steps, i, stopPc, stopStep, path_gen_success, polledAt>>
    /\ progress' = Emit(progress, 0)
    /\ cleanups' = IF runner /\ overall_success THEN cleanups + 1 ELSE cleanups
    /\ \E oc \in SerialOutcomes :
         LET d == disconnect_hardware(motion, uv, lamp, oc)
         IN IF runner /\ overall_success
            THEN /\ motion' = d.m
                 /\ uv' = d.u
                 /\ lamp' = d.lamp
                 /\ log' = log \o d.cmds
            ELSE UNCHANGED <<motion, uv, lamp, log>>
    /\ finished' = Append(finished, <<overall_success, final_message>>)
    /\ is_running' = FALSE
    /\ pc' = "done"

\* Variant of Finally in which a failure met during the cleanup (UV OFF not
\* answered, a close() that raises) is reported as the outcome of the run.
Finally_FaultChangesOutcome ==
    /\ pc = "finally"
    /\ UNCHANGED <<loadVars, genVars, envVars, aloneVars>>
    /\ UNCHANGED <<estimated_total_seconds, elapsed_time, estimated_remaining_sec>>
    /\ UNCHANGED <<abort_requested, runner, total_steps, i, stopPc, stopStep,
                   path_gen_success, polledAt>>
    /\ progress' = Emit(progress, 0)
    /\ cleanups' = IF runner THEN cleanups + 1 ELSE cleanups
    /\ \E oc \in SerialOutcomes, cl \in CloseOutcomes :
         LET d == disconnect_hardware(motion, uv, lamp, oc)
             faults == IF runner THEN CleanupFaults(motion, uv, cl) ELSE {}
             failed == runner /\ (faults # {} \/ \E k \in 1..Len(d.cmds) :
                                     d.cmds[k].cmd = "uv_off" /\ ~d.cmds[k].ok)
         IN /\ cleanup_faults' = faults
            /\ IF runner
               THEN /\ motion' = d.m
                    /\ uv' = d.u
                    /\ lamp' = d.lamp
                    /\ log' = log \o d.cmds
               ELSE UNCHANGED <<motion, uv, lamp, log>>
            /\ overall_success' = (overall_success /\ ~failed)
            /\ final_message' = IF failed
                                 THEN Msg("Error during execution", "cleanup", 0)
                                 ELSE final_message
    /\ finished' = Append(finished, <<overall_success', final_message'>>)
    /\ is_running' = FALSE
    /\ pc' = "done"

\* Variant of Finally that ends without finished.emit after an aborted run.
Finally_NoResultAfterAbort ==
    /\ pc = "finally"
    /\ UNCHANGED <<loadVars, genVars, envVars, aloneVars>>
    /\ UNCHANGED <<estimated_total_seconds, elapsed_time, estimated_remaining_sec>>
    /\ \E cl \in CloseOutcomes :
         cleanup_faults' = IF runner THEN CleanupFaults(motion, uv, cl) ELSE {}
    /\ UNCHANGED <<abort_requested, overall_success, final_message, runner,
                   total_steps, i, stopPc, stopStep, path_gen_success, polledAt>>
    /\ progress' = Emit(progress, 0)
    /\ cleanups' = IF runner THEN cleanups + 1 ELSE cleanups
    /\ \E oc \in SerialOutcomes :
         LET d == disconnect_hardware(motion, uv, lamp, oc)
         IN IF runner
            THEN /\ motion' = d.m
                 /\ uv' = d.u
                 /\ lamp' = d.lamp
                 /\ log' = log \o d.cmds
            ELSE UNCHANGED <<motion, uv, lamp, log>>
    /\ finished' = IF final_message.kind = "Process Aborted" THEN finished
                   ELSE Append(finished, <<overall_success, final_message>>)
    /\ is_running' = FALSE
    /\ pc' = "done"

\* The finally block: 0% event, runner._disconnect_hardware() when a runner
\* exists, finished.emit, _is_running = False.
Finally ==
    /\ pc = "finally"
    /\ UNCHANGED <<loadVars, genVars, envVars, aloneVars>>
    /\ UNCHANGED <<estimated_total_seconds, elapsed_time, estimated_remaining_sec>>
    /\ \E cl \in CloseOutcomes :
         cleanup_faults' = IF runner THEN CleanupFaults(motion, uv, cl) ELSE {}
    /\ UNCHANGED <<abort_requested, overall_success, final_message, runner,
                   total_steps, i, stopPc, stopStep, path_gen_success, polledAt>>
    /\ progress' = Emit(progress, 0)
    /\ cleanups' = IF runner THEN cleanups + 1 ELSE cleanups
    /\ \E oc \in SerialOutcomes :
         LET d == disconnect_hardware(motion, uv, lamp, oc)
         IN IF runner
            THEN /\ motion' = d.m
                 /\ uv' = d.u
                 /\ lamp' = d.lamp
                 /\ log' = log \o d.cmds
            ELSE UNCHANGED <<motion, uv, lamp, log>>
    /\ finished' = Append(finished, <<overall_success, final_message>>)
    /\ is_running' = FALSE
    /\ pc' = "done"

Next ==
    \/ Stop
    \/ Start
    \/ PathGen
    \/ Load
    \/ ConnectHardware
    \/ Home
    \/ UvOn
    \/ StepPoll
    \/ StepMove
    \/ StepCure
    \/ Finally

Spec == Init /\ [][Next]_vars

\* The steps of the worker thread: everything but the GUI thread's stop().
WorkerStep ==
    \/ Start
    \/ PathGen
    \/ Load
    \/ ConnectHardware
    \/ Home
    \/ UvOn
    \/ StepPoll
    \/ StepMove
    \/ StepCure
    \/ Finally

\* The worker's run when every call it makes returns: the thread, once
\* started, keeps running until run() has returned; stop() may never come.
SpecLive == Init /\ [][Next]_vars /\ WF_vars(WorkerStep)

----------------------------------------------------------------------------
\* ExperimentRunner.load_coordinates() on an arbitrary coordinate file.

InitLoad ==
    /\ AloneIdle
    /\ Constructed
    /\ Standalone
    /\ GenIdle
    /\ input_file \in Files
    /\ coordinates = None
    /\ load_ret = "unset"

LoadCoordinates ==
    /\ load_ret = "unset"
    /\ LET r == load_coordinates(input_file, coordinates, total_steps)
       IN /\ coordinates' = r.coordinates
          /\ total_steps' = r.total_steps
          /\ load_ret' = IF r.ret THEN "true" ELSE "false"
    /\ UNCHANGED <<pc, abort_requested, is_running, overall_success,
                   final_message, runner, i, motion, uv, lamp, log, progress,
                   finished, stopPc, stopStep, polledAt, cleanups,
                   path_gen_success, estimated_total_seconds, elapsed_time,
                   estimated_remaining_sec, cleanup_faults, input_file,
                   genVars, envVars, aloneVars>>

NextLoad == LoadCoordinates

SpecLoad == InitLoad /\ [][NextLoad]_<<vars, loadVars>>

----------------------------------------------------------------------------
\* ImageTSPOptimizer.run() on an arbitrary image.

InitPath ==
    /\ AloneIdle
    /\ Constructed
    /\ Standalone
    /\ LoadIdle
    /\ gpc = "load_image"
    /\ image \in Images
    /\ labels = <<>>
    /\ num_labels = 0
    /\ label_id = 0
    /\ all_paths_pixels = <<>>
    /\ solved = <<>>
    /\ out_file \in {OutFile(w, FALSE, <<>>) : w \in BOOLEAN}
    /\ run_ret = "unset"
    /\ step_size = PATH_GEN_STEP_SIZE * 10000

\* run(): load_image(), threshold_image(), identify_shapes() and the entry
\* of process_shapes() up to its first loop iteration.
LoadImage ==
    /\ gpc = "load_image"
    /\ UNCHANGED <<vars, loadVars, envVars, aloneVars,
                   image, out_file, step_size>>
    /\ IF ~image.readable
       THEN /\ run_ret' = "false"
            /\ gpc' = "done"
            /\ UNCHANGED <<labels, num_labels, label_id, all_paths_pixels, solved>>
       ELSE LET cc == ConnectedComponents(Threshold(image.pixels))
            IN /\ labels' = cc.labels
               /\ num_labels' = cc.num_labels
               /\ all_paths_pixels' = <<>>
               /\ solved' = <<>>
               /\ run_ret' = run_ret
               /\ IF cc.num_labels <= 1
                  THEN gpc' = "save" /\ label_id' = label_id
                  ELSE gpc' = "shape" /\ label_id' = 1

\* Variant of ProcessShape that gives up the pipeline when a shape has no
\* solution.
ProcessShape_FailOnNoSolution ==
    /\ gpc = "shape"
    /\ UNCHANGED <<vars, loadVars, envVars, aloneVars,
                   image, labels, num_labels, out_file,
                   step_size>>
    /\ LET coords == ShapeCoords(labels, label_id)
       IN \E oc \in SolverOutcomes(Len(coords)) :
            LET r == solve_tsp_for_coords(coords, oc)
            IN /\ solved' = Append(solved, r)
               /\ all_paths_pixels' = extend_paths(all_paths_pixels, r)
               /\ IF ~Truthy(r)
                  THEN /\ run_ret' = "false"
                       /\ gpc' = "done"
                       /\ label_id' = label_id
                  ELSE /\ run_ret' = run_ret
                       /\ IF label_id + 1 < num_labels
                          THEN gpc' = "shape" /\ label_id' = label_id + 1
                          ELSE gpc' = "save" /\ label_id' = label_id

\* process_shapes(): one iteration of "for label_id in range(1, num_labels)".
ProcessShape ==
    /\ gpc = "shape"
    /\ UNCHANGED <<vars, loadVars, envVars, aloneVars,
                   image, labels, num_labels, out_file, run_ret,
                   step_size>>
    /\ LET coords == ShapeCoords(labels, label_id)
       IN IF Len(coords) = 0
          THEN UNCHANGED <<all_paths_pixels>> /\ solved' = Append(solved, NoPath)
          ELSE \E oc \in SolverOutcomes(Len(coords)) :
                 LET r == solve_tsp_for_coords(coords, oc)
                 IN /\ solved' = Append(solved, r)
                    /\ all_paths_pixels' = extend_paths(all_paths_pixels, r)
    /\ IF label_id + 1 < num_labels
       THEN gpc' = "shape" /\ label_id' = label_id + 1
       ELSE gpc' = "save" /\ label_id' = label_id

\* run(): save_optimized_path(), whose result run() returns (the two
\* visualisation steps catch their own exceptions).
SavePath ==
    /\ gpc = "save"
    /\ UNCHANGED <<vars, loadVars, envVars, aloneVars,
                   image, labels, num_labels, label_id,
                   all_paths_pixels, solved, step_size>>
    /\ \E up \in BOOLEAN :
         LET sv == save_optimized_path(all_paths_pixels, out_file, step_size, up)
         IN /\ out_file' = sv.file
            /\ run_ret' = IF sv.ret THEN "true" ELSE "false"
    /\ gpc' = "done"

NextPath ==
    \/ LoadImage
    \/ ProcessShape
    \/ SavePath

SpecPath == InitPath /\ [][NextPath]_<<vars, genVars>>

----------------------------------------------------------------------------
\* save_optimized_path() on an arbitrary global path, and the worker's
\* load_coordinates() on the file it wrote.

\* Height of the pixel grid the points of such a path lie on (its width is
\* MaxWidth), and the largest number of points of the path.
MaxHeight == 3
MaxPathLen == 2

\* (row, col) indices of the grid, counted from 0.
Pixels == (0..(MaxHeight - 1)) \X (0..(MaxWidth - 1))

\* A global path visits a pixel at most once.
GlobalPaths ==
    {q \in UNION {[1..k -> Pixels] : k \in 0..MaxPathLen} :
        \A a, b \in 1..Len(q) : a # b => q[a] # q[b]}

\* Step sizes, in 1/10000 of a unit: the configured 50.0, the smallest the
\* step size spin box offers (0.1), and one finer than the three decimals
\* of the file (0.0015).
StepSizes == {PATH_GEN_STEP_SIZE * 10000, 1000, 15}

InitSave ==
    /\ AloneIdle
    /\ Constructed
    /\ Standalone
    /\ LoadIdle
    /\ gpc = "save"
    /\ image = Image(FALSE, <<>>)
    /\ labels = <<>>
    /\ num_labels = 0
    /\ label_id = 0
    /\ all_paths_pixels \in GlobalPaths
    /\ solved = <<>>
    /\ out_file \in {OutFile(w, FALSE, <<>>) : w \in BOOLEAN}
    /\ run_ret = "unset"
    /\ step_size \in StepSizes

\* ExperimentWorker.run() after a successful path_optimizer.run(): the
\* runner is built on the generated file and load_coordinates() reads it.
LoadGenerated ==
    /\ gpc = "done"
    /\ run_ret = "true"
    /\ load_ret = "unset"
    /\ input_file' = File(out_file.exists, out_file.rows)
    /\ LET r == load_coordinates(input_file', coordinates, total_steps)
       IN /\ coordinates' = r.coordinates
          /\ total_steps' = r.total_steps
          /\ load_ret' = IF r.ret THEN "true" ELSE "false"
    /\ UNCHANGED <<pc, abort_requested, is_running, overall_success,
                   final_message, runner, i, motion, uv, lamp, log, progress,
                   finished, stopPc, stopStep, polledAt, cleanups,
                   path_gen_success, estimated_total_seconds, elapsed_time,
                   estimated_remaining_sec, cleanup_faults, genVars, envVars, aloneVars>>

NextSave ==
    \/ SavePath
    \/ LoadGenerated

SpecSave == InitSave /\ [][NextSave]_<<vars, loadVars, genVars>>

----------------------------------------------------------------------------
\* MainWindow: runs launched from the window, one after the other.

\* Largest number of runs launched from the window.
MaxRuns == 2

\* No worker has been created yet.
NoWorker ==
    /\ pc = "idle"
    /\ abort_requested = FALSE
    /\ is_running = FALSE
    /\ overall_success = FALSE
    /\ final_message = Msg("Process started...", "", 0)
    /\ runner = FALSE
    /\ total_steps = 0
    /\ i = 0
    /\ motion = MotionInit
    /\ uv = UVInit
    /\ lamp = "off"
    /\ log = <<>>
    /\ progress = <<>>
    /\ finished = <<>>
    /\ stopPc = "none"
    /\ stopStep = 0
    /\ polledAt = -1
    /\ cleanups = 0
    /\ path_gen_success = "unset"
    /\ estimated_total_seconds = -1
    /\ elapsed_time = 0
    /\ estimated_remaining_sec = Quotient(0, 1)
    /\ cleanup_faults = {}

\* ExperimentWorker(...) followed by start(): a new worker at the top of
\* run(), with new controller objects.
Launch ==
    /\ pc' = "start"
    /\ abort_requested' = FALSE
    /\ is_running' = TRUE
    /\ overall_success' = FALSE
    /\ final_message' = Msg("Process started...", "", 0)
    /\ runner' = FALSE
    /\ total_steps' = 0
    /\ i' = 0
    /\ motion' = MotionInit
    /\ uv' = UVInit
    /\ log' = <<>>
    /\ progress' = <<>>
    /\ finished' = <<>>
    /\ stopPc' = "none"
    /\ stopStep' = 0
    /\ polledAt' = -1
    /\ cleanups' = 0
    /\ path_gen_success' = "unset"
    /\ estimated_total_seconds' = -1
    /\ elapsed_time' = 0
    /\ estimated_remaining_sec' = Quotient(0, 1)
    /\ cleanup_faults' = {}

InitGui ==
    /\ AloneIdle
    /\ NoWorker
    /\ LoadIdle
    /\ GenIdle
    /\ cure_time_s = DEFAULT_CURE_TIME_S
    /\ uv_command_overhead_s = UV_COMMAND_OVERHEAD_S
    /\ move_process_overhead_s = MOVE_PROCESS_OVERHEAD_S
    /\ start_button_enabled = TRUE
    /\ worker_thread = FALSE
    /\ launches = 0
    /\ first = NoRun

\* Variant of _set_running_state that leaves the start button enabled.
StartEnabledAfter_Always(running) == TRUE

\* MainWindow._set_running_state(is_running): start_button.setEnabled(not
\* is_running).
StartEnabledAfter(running) == ~running

\* MainWindow.start_experiment(), the slot of a click on the start button:
\* without a valid image it only warns; else it disables the start button,
\* creates the worker and starts it.
StartExperiment ==
    /\ start_button_enabled
    /\ launches < MaxRuns
    /\ \E valid \in BOOLEAN :
         IF ~valid
         THEN UNCHANGED <<vars, start_button_enabled, worker_thread, launches>>
         ELSE /\ start_button_enabled' = StartEnabledAfter(TRUE)
              /\ worker_thread' = TRUE
              /\ launches' = launches + 1
              /\ Launch
              /\ lamp' = lamp
    /\ UNCHANGED <<loadVars, genVars, aloneVars, cure_time_s, uv_command_overhead_s,
                   move_process_overhead_s, first>>

\* MainWindow.handle_experiment_finished(), the slot of the worker's
\* finished signal.
HandleFinished ==
    /\ worker_thread
    /\ pc = "done"
    /\ finished # <<>>
    /\ start_button_enabled' = StartEnabledAfter(FALSE)
    /\ worker_thread' = FALSE
    /\ UNCHANGED <<vars, loadVars, genVars, aloneVars, cure_time_s, uv_command_overhead_s,
                   move_process_overhead_s, launches, first>>

NextGui ==
    \/ StartExperiment
    \/ HandleFinished
    \/ Stop
    \/ Start
    \/ PathGen
    \/ Load
    \/ ConnectHardware
    \/ Home
    \/ UvOn
    \/ StepPoll
    \/ StepMove
    \/ StepCure
    \/ Finally

SpecGui == InitGui /\ [][NextGui]_<<vars, envVars>>

----------------------------------------------------------------------------
\* Two runs of the worker on the same inputs (path generation result,
\* coordinates, hardware responses, moment of the stop request and poll that
\* saw it) that differ
\* in the overhead constants of the configuration, hence in their estimates,
\* and in the time their moves take.

\* The overhead constants as configured, and both set to zero.
Overheads == {<<UV_COMMAND_OVERHEAD_S, MOVE_PROCESS_OVERHEAD_S>>, <<0, 0>>}

\* The hardware calls of a log without their results, and the results.
Commands(l) == [k \in 1..Len(l) |-> [cmd |-> l[k].cmd, step |-> l[k].step]]
Responses(l) == [k \in 1..Len(l) |-> l[k].ok]

Min(a, b) == IF a <= b THEN a ELSE b

\* The run in progress has so far been given the inputs of the first run.
SameInputs ==
    \/ first.none
    \/ /\ path_gen_success \in {"unset", first.path_gen_success}
       /\ total_steps \in {0, first.total_steps}
       /\ stopPc \in {"none", first.stopPc}
       /\ stopPc # "none" => stopStep = first.stopStep
       /\ polledAt \in {-1, first.polledAt}
       /\ \A k \in 1..Min(Len(log), Len(first.responses)) :
             log[k].ok = first.responses[k]

InitTwice ==
    /\ AloneIdle
    /\ Constructed
    /\ LoadIdle
    /\ GenIdle
    /\ cure_time_s = DEFAULT_CURE_TIME_S
    /\ \E o \in Overheads :
         /\ uv_command_overhead_s = o[1]
         /\ move_process_overhead_s = o[2]
    /\ start_button_enabled = FALSE
    /\ worker_thread = FALSE
    /\ launches = 0
    /\ first = NoRun

\* The first run has ended: what it was given and what it did is kept, and
\* a second worker is started with the other overhead constants, the UV
\* source being off again.
Rerun ==
    /\ pc = "done"
    /\ first.none
    /\ first' = [none |-> FALSE,
                 path_gen_success |-> path_gen_success,
                 total_steps |-> total_steps,
                 stopPc |-> stopPc,
                 stopStep |-> stopStep,
                 polledAt |-> polledAt,
                 responses |-> Responses(log),
                 commands |-> Commands(log),
                 outcome |-> IF overall_success THEN "Completed"
                             ELSE IF final_message.kind = "Process Aborted"
                             THEN "Aborted" ELSE "Failed",
                 estimated_total_seconds |-> estimated_total_seconds,
                 estimated_remaining_sec |-> estimated_remaining_sec]
    /\ \E o \in Overheads \ {<<uv_command_overhead_s, move_process_overhead_s>>} :
         /\ uv_command_overhead_s' = o[1]
         /\ move_process_overhead_s' = o[2]
    /\ Launch
    /\ lamp' = "off"
    /\ UNCHANGED <<loadVars, genVars, aloneVars, cure_time_s, start_button_enabled,
                   worker_thread, launches>>

NextTwice ==
    \/ Rerun
    \/ Stop /\ SameInputs'
    \/ Start /\ SameInputs'
    \/ PathGen /\ SameInputs'
    \/ Load /\ SameInputs'
    \/ ConnectHardware /\ SameInputs'
    \/ Home /\ SameInputs'
    \/ UvOn /\ SameInputs'
    \/ StepPoll /\ SameInputs'
    \/ StepMove /\ SameInputs'
    \/ StepCure /\ SameInputs'
    \/ Finally /\ SameInputs'

SpecTwice == InitTwice /\ [][NextTwice]_<<vars, envVars>>

----------------------------------------------------------------------------
\* ExperimentRunner.estimate_duration() after load_coordinates(), for any
\* cure time and overheads.

\* Longest cure time, in tenths of a second (the spin box steps by 0.1 s).
MaxCureTime == 30
CureTimes == 1..MaxCureTime

\* Files of k rows "x,y", and no file.
CoordinateFiles ==
    {NoFile} \cup {File(TRUE, [r \in 1..k |-> Row(2)]) : k \in 0..MaxRows}

InitEstimate ==
    /\ AloneIdle
    /\ Constructed
    /\ GenIdle
    /\ input_file \in CoordinateFiles
    /\ coordinates = None
    /\ load_ret = "unset"
    /\ cure_time_s \in CureTimes
    /\ uv_command_overhead_s \in {0, UV_COMMAND_OVERHEAD_S}
    /\ move_process_overhead_s \in {0, MOVE_PROCESS_OVERHEAD_S}
    /\ start_button_enabled = FALSE
    /\ worker_thread = FALSE
    /\ launches = 0
    /\ first = NoRun

EstimateDuration ==
    /\ load_ret # "unset"
    /\ estimated_total_seconds = -1
    /\ estimated_total_seconds' =
          estimate_duration(total_steps, cure_time_s, move_process_overhead_s,
                            uv_command_overhead_s)
    /\ UNCHANGED <<pc, abort_requested, is_running, overall_success,
                   final_message, runner, total_steps, i, motion, uv, lamp,
                   log, progress, finished, stopPc, stopStep, polledAt,
                   cleanups, path_gen_success, elapsed_time,
                   estimated_remaining_sec, cleanup_faults, loadVars, genVars,
                   envVars, aloneVars>>

NextEstimate ==
    \/ LoadCoordinates
    \/ EstimateDuration

SpecEstimate == InitEstimate /\ [][NextEstimate]_<<vars, loadVars, envVars>>

----------------------------------------------------------------------------
\* The worker's run with the path generator it calls and the coordinate file
\* the two share (config.COORDINATE_FILE_PATH).

\* Images whose pixels are black or white.
BinaryImages ==
    {im \in Images : \A c \in 1..Len(im.pixels) : im.pixels[c] \in {0, 255}}

\* The rows an earlier run left in the coordinate file: two points written
\* with a step size of 0.1.
EarlierRows ==
    save_optimized_path(<<<<0, 1>>, <<0, 0>>>>, OutFile(TRUE, FALSE, <<>>),
                        1000, TRUE).file.rows

\* The coordinate file before the run: absent or left by an earlier run,
\* and writable or not.
CoordinateFilesBefore ==
    {OutFile(w, e, IF e THEN EarlierRows ELSE <<>>) : w \in BOOLEAN, e \in BOOLEAN}

InitPipeline ==
    /\ AloneIdle
    /\ Constructed
    /\ Standalone
    /\ LoadIdle
    /\ gpc = "idle"
    /\ image \in BinaryImages
    /\ labels = <<>>
    /\ num_labels = 0
    /\ label_id = 0
    /\ all_paths_pixels = <<>>
    /\ solved = <<>>
    /\ out_file \in CoordinateFilesBefore
    /\ run_ret = "unset"
    /\ step_size = PATH_GEN_STEP_SIZE * 10000

\* run(): ImageTSPOptimizer(...) is built and its run() is called.
CallPathOptimizer ==
    /\ pc = "pathgen"
    /\ gpc = "idle"
    /\ gpc' = "load_image"
    /\ UNCHANGED <<vars, loadVars, envVars, aloneVars, image, labels,
                   num_labels, label_id, all_paths_pixels, solved, out_file,
                   run_ret, step_size>>

\* Variant of PathGenReturned that does not test the result of
\* path_optimizer.run().
PathGenReturned_IgnoreResult ==
    /\ pc = "pathgen"
    /\ gpc = "done"
    /\ UNCHANGED <<loadVars, genVars, envVars, aloneVars>>
    /\ UNCHANGED <<estimated_total_seconds, elapsed_time,
                   estimated_remaining_sec, cleanup_faults>>
    /\ UNCHANGED <<abort_requested, is_running, total_steps, i, motion, uv,
                   lamp, log, finished, stopPc, stopStep>>
    /\ path_gen_success' = run_ret
    /\ IF abort_requested
       THEN /\ Aborted("after path generation", progress)
            /\ runner' = runner
       ELSE /\ GoOn("load", Emit(Emit(Emit(progress, 10), 10), 15))
            /\ runner' = TRUE

\* run(): path_optimizer.run() has returned; its result is tested, then the
\* poll, then the controllers and the runner are built.
PathGenReturned ==
    /\ pc = "pathgen"
    /\ gpc = "done"
    /\ UNCHANGED <<loadVars, genVars, envVars, aloneVars>>
    /\ UNCHANGED <<estimated_total_seconds, elapsed_time,
                   estimated_remaining_sec, cleanup_faults>>
    /\ UNCHANGED <<abort_requested, is_running, total_steps, i, motion, uv,
                   lamp, log, finished, stopPc, stopStep>>
    /\ path_gen_success' = run_ret
    /\ IF run_ret # "true"
       THEN /\ Failed("Path generation failed", 0, progress)
            /\ runner' = runner
       ELSE IF abort_requested
       THEN /\ Aborted("after path generation", progress)
            /\ runner' = runner
       ELSE /\ GoOn("load", Emit(Emit(Emit(progress, 10), 10), 15))
            /\ runner' = TRUE

\* run(): load_coordinates() on the coordinate file, the test for an empty
\* file, estimate_duration(), and the poll before the hardware is connected.
LoadGeneratedFile ==
    /\ pc = "load"
    /\ UNCHANGED <<genVars, envVars, aloneVars>>
    /\ UNCHANGED <<elapsed_time, estimated_remaining_sec, cleanup_faults>>
    /\ UNCHANGED <<abort_requested, is_running, runner, i, motion, uv, lamp,
                   log, finished, stopPc, stopStep, path_gen_success>>
    /\ input_file' = File(out_file.exists, out_file.rows)
    /\ LET r == load_coordinates(input_file', coordinates, total_steps)
           p1 == Emit(progress, 15)
           p2 == Emit(Emit(p1, 15), 20)
       IN /\ coordinates' = r.coordinates
          /\ total_steps' = r.total_steps
          /\ load_ret' = Ret(r.ret)
          /\ IF ~r.ret
             THEN /\ Failed("Failed to load generated coordinates", 0, p1)
                  /\ estimated_total_seconds' = estimated_total_seconds
             ELSE IF r.total_steps = 0
             THEN /\ Failed("Loaded coordinate file is empty", 0, p1)
                  /\ estimated_total_seconds' = estimated_total_seconds
             ELSE /\ estimated_total_seconds' =
                        estimate_duration(r.total_steps, cure_time_s,
                                          move_process_overhead_s,
                                          uv_command_overhead_s)
                  /\ IF abort_requested
                     THEN Aborted("before hardware connect", p2)
                     ELSE GoOn("connect", p2)

NextPipeline ==
    \/ Stop
    \/ Start
    \/ CallPathOptimizer
    \/ LoadImage
    \/ ProcessShape
    \/ SavePath
    \/ PathGenReturned
    \/ LoadGeneratedFile
    \/ ConnectHardware
    \/ Home
    \/ UvOn
    \/ StepPoll
    \/ StepMove
    \/ StepCure
    \/ Finally

SpecPipeline == InitPipeline /\ [][NextPipeline]_<<vars, loadVars, genVars>>

----------------------------------------------------------------------------
\* ExperimentRunner.run(start_at_origin), the sequencer without cancellation,
\* on a runner built on an arbitrary coordinate file.

InitRunner ==
    /\ Constructed
    /\ Standalone
    /\ GenIdle
    /\ input_file \in CoordinateFiles
    /\ coordinates = None
    /\ load_ret = "unset"
    /\ dev_last = NoCall
    /\ dev_calls = 0
    /\ rpc = "load"
    /\ run_success_status = FALSE
    /\ runner_ret = "unset"
    /\ interrupted = FALSE
    /\ start_at_origin \in BOOLEAN
    /\ seconds = 0
    /\ hms = <<>>

\* What no step of ExperimentRunner.run() changes.
RunnerFrame ==
    UNCHANGED <<pc, abort_requested, is_running, overall_success,
                final_message, runner, progress, finished, stopPc, stopStep,
                polledAt, path_gen_success, estimated_total_seconds,
                elapsed_time, estimated_remaining_sec, cleanup_faults,
                genVars, envVars, devVars, hmsVars, start_at_origin,
                runner_ret, input_file>>

\* raise RuntimeError(...) inside the try block, caught by "except
\* Exception", which only logs.
RunnerFailed ==
    /\ rpc' = "finally"
    /\ UNCHANGED <<run_success_status, interrupted>>

\* Ctrl-C while run() is inside its try block: "except KeyboardInterrupt"
\* logs and falls through to the finally block.
KeyboardInterrupt ==
    /\ rpc \in {"load", "connect", "home", "uvon", "move", "cure"}
    /\ interrupted' = TRUE
    /\ rpc' = "finally"
    /\ RunnerFrame
    /\ UNCHANGED <<total_steps, i, motion, uv, lamp, log, cleanups,
                   coordinates, load_ret, run_success_status>>

\* run(): load_coordinates().
RunLoad ==
    /\ rpc = "load"
    /\ RunnerFrame
    /\ UNCHANGED <<i, motion, uv, lamp, log, cleanups>>
    /\ LET r == load_coordinates(input_file, coordinates, total_steps)
       IN /\ coordinates' = r.coordinates
          /\ total_steps' = r.total_steps
          /\ load_ret' = Ret(r.ret)
          /\ IF r.ret
             THEN rpc' = "connect" /\ UNCHANGED <<run_success_status, interrupted>>
             ELSE RunnerFailed

\* run(): _connect_hardware(), then estimate_duration().
RunConnect ==
    /\ rpc = "connect"
    /\ RunnerFrame
    /\ UNCHANGED <<total_steps, i, lamp, cleanups, coordinates, load_ret>>
    /\ \E mo \in MotionConnectOutcomes, uo \in UVConnectOutcomes :
         LET c == connect_hardware(motion, uv, mo, uo)
         IN /\ motion' = c.m
            /\ uv' = c.u
            /\ log' = log \o c.cmds
            /\ IF c.ret = "true"
               THEN /\ rpc' = IF start_at_origin THEN "home" ELSE "uvon"
                    /\ UNCHANGED <<run_success_status, interrupted>>
               ELSE RunnerFailed

\* run(): move_to_um(0.0, 0.0) when start_at_origin is true.
RunHome ==
    /\ rpc = "home"
    /\ RunnerFrame
    /\ UNCHANGED <<total_steps, i, motion, uv, lamp, cleanups, coordinates,
                   load_ret>>
    /\ \E oc \in MoveOutcomes :
         LET mv == MotionMove(motion, oc)
         IN /\ log' = IF mv.commanded THEN Append(log, Cmd("move", 0, mv.ret)) ELSE log
            /\ IF mv.ret
               THEN rpc' = "uvon" /\ UNCHANGED <<run_success_status, interrupted>>
               ELSE RunnerFailed

\* run(): uv_controller.uv_on(); on success the loop is entered.
RunUvOn ==
    /\ rpc = "uvon"
    /\ RunnerFrame
    /\ UNCHANGED <<total_steps, motion, uv, cleanups, coordinates, load_ret>>
    /\ \E oc \in SerialOutcomes :
         LET on == UvOnCmd(uv, lamp, oc)
         IN /\ lamp' = on.lamp
            /\ log' = IF on.written THEN Append(log, Cmd("uv_on", 0, on.ret)) ELSE log
            /\ IF on.ret
               THEN /\ rpc' = "move"
                    /\ i' = 1
                    /\ UNCHANGED <<run_success_status, interrupted>>
               ELSE RunnerFailed /\ i' = i

\* Iteration i of the loop of run(): move_to_um(x, y).
RunStepMove ==
    /\ rpc = "move"
    /\ RunnerFrame
    /\ UNCHANGED <<total_steps, i, motion, uv, lamp, cleanups, coordinates,
                   load_ret>>
    /\ \E oc \in MoveOutcomes :
         LET mv == MotionMove(motion, oc)
         IN /\ log' = IF mv.commanded THEN Append(log, Cmd("move", i, mv.ret)) ELSE log
            /\ IF mv.ret
               THEN rpc' = "cure" /\ UNCHANGED <<run_success_status, interrupted>>
               ELSE RunnerFailed

\* Iteration i: time.sleep(cure_time_s); after the last iteration
\* run_success_status is set.
RunStepCure ==
    /\ rpc = "cure"
    /\ RunnerFrame
    /\ UNCHANGED <<total_steps, motion, uv, lamp, cleanups, coordinates,
                   load_ret, interrupted>>
    /\ log' = Append(log, Cmd("cure", i, TRUE))
    /\ IF i < total_steps
       THEN /\ i' = i + 1
            /\ rpc' = "move"
            /\ run_success_status' = run_success_status
       ELSE /\ i' = i
            /\ rpc' = "finally"
            /\ run_success_status' = TRUE

\* Variant of RunFinally that calls _disconnect_hardware only when a
\* capability is connected.
RunFinally_OnlyIfConnected ==
    /\ rpc = "finally"
    /\ UNCHANGED <<pc, abort_requested, is_running, overall_success,
                   final_message, runner, progress, finished, stopPc, stopStep,
                   polledAt, path_gen_success, estimated_total_seconds,
                   elapsed_time, estimated_remaining_sec, cleanup_faults,
                   genVars, envVars, devVars, hmsVars, start_at_origin,
                   loadVars, total_steps, i, run_success_status, interrupted>>
    /\ \E oc \in SerialOutcomes :
         LET d == disconnect_hardware(motion, uv, lamp, oc)
         IN IF motion.is_connected \/ UVIsConnected(uv)
            THEN /\ motion' = d.m
                 /\ uv' = d.u
                 /\ lamp' = d.lamp
                 /\ log' = log \o d.cmds
                 /\ cleanups' = cleanups + 1
            ELSE UNCHANGED <<motion, uv, lamp, log, cleanups>>
    /\ runner_ret' = Ret(run_success_status)
    /\ rpc' = "returned"

\* The finally block of run(): _disconnect_hardware(), then the return of
\* run_success_status.
RunFinally ==
    /\ rpc = "finally"
    /\ UNCHANGED <<pc, abort_requested, is_running, overall_success,
                   final_message, runner, progress, finished, stopPc, stopStep,
                   polledAt, path_gen_success, estimated_total_seconds,
                   elapsed_time, estimated_remaining_sec, cleanup_faults,
                   genVars, envVars, devVars, hmsVars, start_at_origin,
                   loadVars, total_steps, i, run_success_status, interrupted>>
    /\ \E oc \in SerialOutcomes :
         LET d == disconnect_hardware(motion, uv, lamp, oc)
         IN /\ motion' = d.m
            /\ uv' = d.u
            /\ lamp' = d.lamp
            /\ log' = log \o d.cmds
    /\ cleanups' = cleanups + 1
    /\ runner_ret' = Ret(run_success_status)
    /\ rpc' = "returned"

NextRunner ==
    \/ KeyboardInterrupt
    \/ RunLoad
    \/ RunConnect
    \/ RunHome
    \/ RunUvOn
    \/ RunStepMove
    \/ RunStepCure
    \/ RunFinally

SpecRunner == InitRunner /\ [][NextRunner]_<<vars, loadVars, seqVars>>

----------------------------------------------------------------------------
\* seconds_to_hms() on an arbitrary duration, in tenths of a second.

\* Longest duration converted (1 h 2 min 10 s); a few negative ones are
\* converted too.
MaxDuration == 37300
Durations == (-20)..MaxDuration

\* round() of a non-negative float given in tenths: to the nearest integer,
\* a tie (.5, which a float holds exactly) going to the even one.
RoundHalfEven(t) ==
    LET q == t \div 10
        r == t % 10
    IN IF r > 5 \/ (r = 5 /\ q % 2 = 1) THEN q + 1 ELSE q

\* seconds_to_hms(seconds): two divmod, and round() of the seconds left.
seconds_to_hms(t) ==
    IF t < 0 THEN <<0, 0, 0>>
    ELSE LET hours == t \div 36000
             remainder == t % 36000
             minutes == remainder \div 600
             seconds_rem == remainder % 600
         IN <<hours, minutes, RoundHalfEven(seconds_rem)>>

InitHms ==
    /\ Constructed
    /\ Standalone
    /\ LoadIdle
    /\ GenIdle
    /\ dev_last = NoCall
    /\ dev_calls = 0
    /\ rpc = "idle"
    /\ run_success_status = FALSE
    /\ runner_ret = "unset"
    /\ interrupted = FALSE
    /\ start_at_origin = TRUE
    /\ seconds \in Durations
    /\ hms = <<>>

SecondsToHms ==
    /\ hms = <<>>
    /\ hms' = seconds_to_hms(seconds)
    /\ UNCHANGED <<vars, loadVars, genVars, envVars, devVars, seqVars, seconds>>

NextHms == SecondsToHms

SpecHms == InitHms /\ [][NextHms]_hmsVars

----------------------------------------------------------------------------
\* MotionSystem and UVcontroller called directly, in any order and with any
\* response of the devices.

\* Largest number of capability calls made.
MaxCalls == 4

\* A capability call has been made: what it was given, returned and did.
Called(op, ret, calls) ==
    /\ dev_calls < MaxCalls
    /\ dev_calls' = dev_calls + 1
    /\ dev_last' = [op |-> op, motion |-> motion, uv |-> uv, ret |-> ret,
                    calls |-> calls]
    /\ UNCHANGED <<pc, abort_requested, is_running, overall_success,
                   final_message, runner, total_steps, i, log, progress,
                   finished, stopPc, stopStep, polledAt, cleanups,
                   path_gen_success, estimated_total_seconds, elapsed_time,
                   estimated_remaining_sec, cleanup_faults>>
    /\ UNCHANGED <<loadVars, genVars, envVars, seqVars, hmsVars>>

InitDevices ==
    /\ AloneIdle
    /\ Constructed
    /\ Standalone
    /\ LoadIdle
    /\ GenIdle

CallMotionConnect ==
    \E oc \in MotionConnectOutcomes :
       LET c == MotionConnect(motion, oc)
       IN /\ motion' = c.m
          /\ Called("motion_connect", c.ret, MotionConnectCalls(motion, oc))
          /\ UNCHANGED <<uv, lamp>>

CallMotionDisconnect ==
    \E cl \in CloseOutcomes :
       /\ motion' = MotionDisconnect(motion)
       /\ Called("motion_disconnect", "none", MotionDisconnectCalls(motion, cl))
       /\ UNCHANGED <<uv, lamp>>

CallMoveToUm ==
    \E oc \in MoveOutcomes :
       LET mv == MotionMove(motion, oc)
       IN /\ Called("move_to_um", Ret(mv.ret),
                    IF mv.commanded THEN <<Io("x", "move_to", mv.ret)>> ELSE <<>>)
          /\ UNCHANGED <<motion, uv, lamp>>

CallHome ==
    \E oc \in MoveOutcomes :
       LET mv == MotionHome(motion, oc)
       IN /\ Called("home", Ret(mv.ret),
                    IF mv.commanded THEN <<Io("x", "home", mv.ret)>> ELSE <<>>)
          /\ UNCHANGED <<motion, uv, lamp>>

CallUvConnect ==
    \E oc \in UVConnectOutcomes :
       LET c == UVConnect(uv, oc)
       IN /\ uv' = c.u
          /\ Called("uv_connect", Ret(c.ret),
                    IF uv.serial_open THEN <<>>
                    ELSE <<Io("serial", "open", c.ret)>>)
          /\ UNCHANGED <<motion, lamp>>

CallUvDisconnect ==
    \E cl \in CloseOutcomes :
       /\ uv' = UVDisconnect(uv)
       /\ Called("uv_disconnect", "none",
                 IF uv.serial_open
                 THEN <<Io("serial", "close", cl # "serial_close_raises")>>
                 ELSE <<>>)
       /\ UNCHANGED <<motion, lamp>>

CallUvOn ==
    \E oc \in SerialOutcomes :
       LET on == UvOnCmd(uv, lamp, oc)
       IN /\ lamp' = on.lamp
          /\ Called("uv_on", Ret(on.ret),
                    IF on.written THEN <<Io("serial", "write", on.ret)>> ELSE <<>>)
          /\ UNCHANGED <<motion, uv>>

CallUvOff ==
    \E oc \in SerialOutcomes :
       LET off == UvOffCmd(uv, lamp, oc)
       IN /\ lamp' = off.lamp
          /\ Called("uv_off", Ret(off.ret),
                    IF off.written THEN <<Io("serial", "write", off.ret)>> ELSE <<>>)
          /\ UNCHANGED <<motion, uv>>

NextDevices ==
    \/ CallMotionConnect
    \/ CallMotionDisconnect
    \/ CallMoveToUm
    \/ CallHome
    \/ CallUvConnect
    \/ CallUvDisconnect
    \/ CallUvOn
    \/ CallUvOff

SpecDevices == InitDevices /\ [][NextDevices]_<<vars, devVars>>

----------------------------------------------------------------------------
\* Derived observations of a run.

Done == pc = "done"

\* Terminal outcome carried by (overall_success, final_message).
Outcome ==
    IF overall_success THEN "Completed"
    ELSE IF final_message.kind = "Process Aborted" THEN "Aborted"
    ELSE "Failed"

\* Positions in the log of the entries of command c.
Positions(c) == {k \in 1..Len(log) : log[k].cmd = c}

\* Number of step moves issued (origin move excluded) and of cure waits done.
StepMoves == {k \in 1..Len(log) : log[k].cmd = "move" /\ log[k].step >= 1}
Cures == Positions("cure")

\* Step whose move failed, 0 when none did.
FailedStep ==
    IF \E k \in StepMoves : ~log[k].ok
    THEN log[CHOOSE k \in StepMoves : ~log[k].ok].step
    ELSE 0

TypeOK ==
    /\ pc \in {"idle", "start", "pathgen", "load", "connect", "home", "uvon",
               "poll", "move", "cure", "finally", "done"}
    /\ abort_requested \in BOOLEAN
    /\ total_steps \in 0..MaxSteps
    /\ i \in 0..MaxSteps
    /\ lamp \in {"on", "off"}
    /\ stopPc \in {"none", "start", "pathgen", "load", "connect", "home", "uvon",
                   "poll", "move", "cure", "finally"}
    /\ stopStep \in 0..MaxSteps
    /\ Len(finished) <= 1
    /\ cleanups \in 0..1
    /\ path_gen_success \in {"unset", "true", "false"}
    /\ load_ret \in {"unset", "true", "false"}
    /\ run_ret \in {"unset", "true", "false"}
    /\ gpc \in {"idle", "load_image", "shape", "save", "done"}
    /\ num_labels \in 0..(MaxWidth + 1)
    /\ label_id \in 0..MaxWidth

----------------------------------------------------------------------------
\* Claims

\* The UV ON command was written to the port / was answered (loop entered).
UvOnIssued == Positions("uv_on") # {}
LoopEntered == \E k \in Positions("uv_on") : log[k].ok

\* The last three log entries are the cleanup sequence, in its order.
CleanupTail ==
    LET L == Len(log)
    IN /\ L >= 3
       /\ log[L - 2].cmd = "uv_off"
       /\ log[L - 1].cmd = "uv_disconnect"
       /\ log[L].cmd = "motion_disconnect"

\* C1: in every run that issued the UV ON command, when the terminal result
\* has been emitted the UV source is off and the motion capability is
\* disconnected, whatever the hardware answered.
C1_UvOffAtFinish ==
    (Done /\ UvOnIssued) => (lamp = "off" /\ ~MotionIsConnected(motion))

\* C2: once the stepping loop was entered, at the end of the run the cleanup
\* has run exactly once and in the order UV OFF command, UV disconnect,
\* motion disconnect (the last one closing a connected motion system), also
\* when UV OFF failed; while the loop runs no cleanup command is issued.
C2_CleanupOrder ==
    /\ (Done /\ LoopEntered) =>
          /\ CleanupTail
          /\ log[Len(log)].ok
          /\ \A c \in CleanupCmds : Cardinality(Positions(c)) = 1
          /\ ~MotionIsConnected(motion) /\ ~UVIsConnected(uv)
    /\ pc \in {"poll", "move", "cure"} => \A c \in CleanupCmds : Positions(c) = {}

\* C2 witness: a run that left the loop on a move failure and whose UV OFF
\* command failed, after which both disconnects were still made.
C2_Witness ==
    /\ Done /\ LoopEntered /\ FailedStep >= 1
    /\ CleanupTail /\ ~log[Len(log) - 2].ok

\* Steps whose move was issued / whose cure wait was performed.
MovedSteps == {log[k].step : k \in StepMoves}
CuredSteps == {log[k].step : k \in Cures}

\* C3 as stated (a failed move of the step in flight, the case of C8, set
\* aside): a stop() that falls into step i, for any i in 1..n, ends the run
\* Aborted.
C3_StopDuringStepAborts ==
    (Done /\ stopStep >= 1 /\ FailedStep = 0) => Outcome = "Aborted"

\* C3 amended: a stop() that falls into step i ends the run Aborted when
\* i < n (the poll at the top of step i+1 sees it), Completed when i = n (no
\* poll follows the last step), and Failed when the move of step i fails.
C3_StopDuringStepOutcome ==
    (Done /\ stopStep >= 1) =>
        Outcome = IF FailedStep = stopStep THEN "Failed"
                  ELSE IF stopStep < total_steps THEN "Aborted"
                  ELSE "Completed"

\* C3 witness: stop() fell into step 2 of 3 and the run ended Aborted.
C3_Witness ==
    Done /\ stopStep = 2 /\ total_steps > stopStep /\ Outcome = "Aborted"

C5_PollAborts ==
    /\ polledAt >= 0 =>
          /\ pc \in {"finally", "done"}
          /\ Outcome = "Aborted"
          /\ \A k \in (polledAt + 1)..Len(log) : log[k].cmd \in CleanupCmds
    /\ (Done /\ stopPc = "start") =>
          /\ polledAt = 0 /\ log = <<>>
          /\ final_message.detail = "before path generation"
    /\ (Done /\ stopPc = "pathgen") =>
          /\ log = <<>>
          /\ final_message.detail \in {"after path generation", "Path generation failed"}
    /\ (Done /\ stopPc = "poll") =>
          /\ polledAt >= 0
          /\ final_message.detail = "Experiment aborted by user."
          /\ MovedSteps = 1..(i - 1)

\* C5 witness: the poll at the top of step 2 found the flag set after the UV
\* source had been switched on; the move of step 2 was not issued.
C5_Witness ==
    Done /\ stopPc = "poll" /\ i = 2 /\ polledAt >= 0 /\ MovedSteps = {1}

MotionConnectFailed == \E k \in Positions("motion_connect") : ~log[k].ok
UvConnectFailed == \E k \in Positions("uv_connect") : ~log[k].ok

\* C6: when a connect() of _connect_hardware fails, from its return on
\* neither capability is connected (the motion system that did connect was
\* disconnected by a call that closed it), the run is Failed, and no move
\* and no UV ON command is ever issued.
C6_ConnectFailureTeardown ==
    (MotionConnectFailed \/ UvConnectFailed) =>
        /\ pc \in {"finally", "done"}
        /\ Outcome = "Failed"
        /\ ~motion.is_connected /\ ~UVIsConnected(uv)
        /\ Positions("move") = {} /\ Positions("uv_on") = {}
        /\ UvConnectFailed => \E k \in Positions("motion_disconnect") : log[k].ok

\* C6 witness: the UV connect failed after the motion system had connected.
C6_Witness == Done /\ UvConnectFailed /\ ~MotionConnectFailed

\* C7 as stated: when the UV connect fails after the motion connect, the run
\* is Failed for a connect reason and MotionSystem.disconnect() is called
\* exactly once in the whole run.
C7_MotionDisconnectCalledOnce ==
    (Done /\ UvConnectFailed) =>
        /\ Outcome = "Failed"
        /\ final_message.detail = "Failed to connect hardware"
        /\ Cardinality(Positions("motion_disconnect")) = 1

\* C7 amended: in that run MotionSystem.disconnect() is called twice, by
\* _connect_hardware and again by the cleanup; exactly one of the calls (the
\* first) finds the system connected and closes it, the other does nothing.
C7_MotionDisconnectCalledTwice ==
    (Done /\ UvConnectFailed) =>
        /\ Outcome = "Failed"
        /\ final_message.detail = "Failed to connect hardware"
        /\ Cardinality(Positions("motion_disconnect")) = 2
        /\ \A k \in Positions("motion_disconnect") :
              log[k].ok <=> k = CHOOSE j \in Positions("motion_disconnect") :
                                   \A h \in Positions("motion_disconnect") : j <= h

\* C7 witness: a finished run whose UV connect failed and whose log holds
\* both disconnect calls.
C7_Witness ==
    /\ Done /\ UvConnectFailed
    /\ log[Len(log)] = Cmd("motion_disconnect", 0, FALSE)

\* C8: when the move of step i fails the run is Failed with the message
\* carrying i, the cure wait of step i is not performed, no move of a later
\* step is issued, and the loop is left at once.
C8_MoveFailureEndsRun ==
    /\ FailedStep >= 1 =>
          /\ pc \in {"finally", "done"}
          /\ Outcome = "Failed"
          /\ final_message = Msg("Error during execution", "Motion failed step", FailedStep)
          /\ MovedSteps = 1..FailedStep
          /\ CuredSteps = 1..(FailedStep - 1)
    /\ (Done /\ FailedStep >= 1) => finished = << <<FALSE, final_message>> >>

\* C8 witness: the move of step 2 of 3 failed.
C8_Witness == Done /\ FailedStep = 2 /\ total_steps = 3

\* C9: UV ON is issued at most once, after a successful motion connect, UV
\* connect and origin move and before every step move; step moves happen
\* only after an answered UV ON; no UV OFF precedes the end of the loop, and
\* during the loop the source is on.
C9_UvOnOnceAndHeld ==
    /\ Cardinality(Positions("uv_on")) <= 1
    /\ \A k \in Positions("uv_on") :
          /\ \E a \in 1..(k - 1) : log[a] = Cmd("motion_connect", 0, TRUE)
          /\ \E a \in 1..(k - 1) : log[a] = Cmd("uv_connect", 0, TRUE)
          /\ \E a \in 1..(k - 1) : log[a] = Cmd("move", 0, TRUE)
          /\ \A j \in StepMoves : k < j
    /\ StepMoves # {} => LoopEntered
    /\ \A k \in Positions("uv_off") : \A j \in StepMoves \cup Cures : j < k
    /\ pc \in {"poll", "move", "cure"} =>
          LoopEntered /\ Positions("uv_off") = {} /\ lamp = "on"

\* C9 witness: the worker is in the cure wait of step 2 with the source on.
C9_Witness == pc = "cure" /\ i = 2 /\ LoopEntered /\ lamp = "on"

HomeFailed == \E k \in Positions("move") : log[k].step = 0 /\ ~log[k].ok
UvOnFailed == \E k \in Positions("uv_on") : ~log[k].ok

\* C10: when the move to the origin or the UV ON command fails, the run is
\* Failed, no step move is issued, the cleanup sequence still runs, and
\* after a failed origin move UV ON is never issued.
C10_HomeOrUvOnFailure ==
    /\ (HomeFailed \/ UvOnFailed) =>
          /\ pc \in {"finally", "done"}
          /\ Outcome = "Failed"
          /\ StepMoves = {}
          /\ HomeFailed => ~UvOnIssued
    /\ (Done /\ (HomeFailed \/ UvOnFailed)) =>
          /\ CleanupTail
          /\ ~MotionIsConnected(motion) /\ ~UVIsConnected(uv)

\* C10 witness: the origin move failed and the run has finished.
C10_Witness == Done /\ HomeFailed /\ CleanupTail

\* A poll found the cancellation flag set and raised InterruptedError.
AbortTaken == polledAt >= 0

\* Kind of the message of the emitted terminal result.
ResultKind == finished[1][2].kind

\* C11 as stated: every finished run has emitted its terminal result exactly
\* once and has executed _disconnect_hardware exactly once, at whatever stage
\* it ended.
C11_CleanupOncePerRun ==
    Done => Len(finished) = 1 /\ cleanups = 1

\* C11: a run emits its terminal result exactly once, on finishing, and the
\* result is exactly one of completed, aborted and failed; _disconnect_hardware
\* is executed exactly once in a run that had built its runner and not at all
\* in a run that ended before (cancelled before or after path generation, or
\* path generation failed), which has made no hardware call.
C11_OneResultCleanupOnceWithRunner ==
    /\ Len(finished) = (IF Done THEN 1 ELSE 0)
    /\ cleanups = (IF Done /\ runner THEN 1 ELSE 0)
    /\ Done =>
         /\ finished[1] = <<overall_success, final_message>>
         /\ ResultKind \in {"Experiment completed successfully.",
                            "Process Aborted", "Error during execution"}
         /\ overall_success <=> ResultKind = "Experiment completed successfully."
         /\ AbortTaken <=> ResultKind = "Process Aborted"
         /\ ~runner => log = <<>>

\* A run that failed at a step move has cleaned up once.
C11_Witness ==
    Done /\ runner /\ FailedStep >= 1 /\ cleanups = 1 /\ Outcome = "Failed"

\* C12 as stated: an aborted run emits a pair that is not a failed run's and
\* has executed the cleanup sequence.
C12_AbortedDistinctAndCleaned ==
    (Done /\ AbortTaken) =>
        /\ finished[1] = <<FALSE, final_message>>
        /\ ResultKind = "Process Aborted"
        /\ cleanups = 1

\* C12: the result of an aborted run is (False, "Process Aborted: ...") and
\* that of a failed run (False, "Error during execution: ..."), so the two
\* never coincide.  An abort taken before the runner exists makes no cleanup
\* call; one taken before the hardware is connected runs _disconnect_hardware
\* once with the two disconnects only; a later one runs it once with UV OFF,
\* UV disconnect, motion disconnect.
C12_AbortedDistinctCleanupByStage ==
    Done =>
        /\ AbortTaken => finished[1][1] = FALSE /\ ResultKind = "Process Aborted"
        /\ (~AbortTaken /\ ~overall_success) =>
              finished[1][1] = FALSE /\ ResultKind = "Error during execution"
        /\ AbortTaken =>
              IF ~runner THEN cleanups = 0 /\ log = <<>>
              ELSE IF Positions("uv_connect") = {}
              THEN /\ cleanups = 1
                   /\ log = <<Cmd("uv_disconnect", 0, FALSE),
                              Cmd("motion_disconnect", 0, FALSE)>>
              ELSE cleanups = 1 /\ CleanupTail

\* A run aborted at the poll of its second step has cleaned up in full.
C12_Witness ==
    /\ Done
    /\ AbortTaken
    /\ ResultKind = "Process Aborted"
    /\ Cardinality(Cures) = 1
    /\ CleanupTail

\* The progress events are in non-decreasing order of percentage.
NonDecreasing(prog) ==
    \A a, b \in 1..Len(prog) : a < b => prog[a] <= prog[b]

\* The last progress event emitted.
LastPercentage == progress[Len(progress)]

\* C13: as long as run() has neither ended its try block nor entered an
\* exception handler, the percentages emitted so far are non-decreasing,
\* for every number of steps.
C13_ProgressNonDecreasing ==
    pc \notin {"finally", "done"} => NonDecreasing(progress)

\* C14: whenever the progress event of step i is emitted, the move and the
\* cure wait of step i have been done.
C14_StepEventAfterStepWork ==
    [][(pc = "poll" /\ Len(progress') > Len(progress)) =>
          /\ \E k \in StepMoves : log[k].step = i
          /\ \E k \in Cures : log[k].step = i]_vars

\* C15 as stated: the progress event of step i of n carries the integer
\* nearest to 100*i/n, and every percentage emitted lies in 0..100.
C15_PercentageRounded ==
    /\ pc = "move" => LastPercentage = Percentage_Rounded(i, total_steps)
    /\ \A k \in 1..Len(progress) : progress[k] \in 0..100

\* C15: the progress event of step i of n carries 100*i/n truncated to an
\* integer (the largest p with p*n <= 100*i), and every percentage emitted
\* lies in 0..100.
C15_PercentageTruncated ==
    /\ pc = "move" =>
         /\ LastPercentage * total_steps <= 100 * i
         /\ 100 * i < (LastPercentage + 1) * total_steps
    /\ \A k \in 1..Len(progress) : progress[k] \in 0..100

\* The event of step 2 of 3 carries 66.
C15_Witness ==
    pc = "move" /\ i = 2 /\ total_steps = 3 /\ LastPercentage = 66

\* Capability calls other than disconnect(): connect, move, UV command.
HardwareCalls ==
    {k \in 1..Len(log) :
        log[k].cmd \in {"motion_connect", "uv_connect", "move", "uv_on", "uv_off"}}

\* load_coordinates() returned False in this run.
LoadFailed == runner /\ total_steps = 0 /\ pc \in {"finally", "done"}

\* C17: when path generation or coordinate loading has failed, the run is on
\* its way to the Failed outcome and no connect(), move or UV command has
\* been or will be called.
C17_FailsBeforeHardware ==
    (path_gen_success = "false" \/ LoadFailed) =>
        /\ pc \in {"finally", "done"}
        /\ ~overall_success
        /\ final_message.kind = "Error during execution"
        /\ HardwareCalls = {}
        /\ Done => Outcome = "Failed" /\ finished = <<<<FALSE, final_message>>>>

\* A run whose path generation failed has ended Failed.
C17_Witness ==
    /\ Done
    /\ path_gen_success = "false"
    /\ Outcome = "Failed"
    /\ final_message.detail = "Path generation failed"

\* The file is absent, has no row, or has only rows of fewer than 2 fields.
Unloadable ==
    \/ ~input_file.exists
    \/ \A k \in 1..Len(input_file.rows) : Len(input_file.rows[k]) < 2

\* C16: load_coordinates() returns False and leaves coordinates = None and
\* total_steps = 0 on a file that is missing, empty or made of any number of
\* rows of fewer than 2 fields, and returns True with total_steps = 1 on a
\* file of one row "x,y".
C16_LoadRejectsMalformed ==
    load_ret # "unset" =>
        /\ Unloadable =>
              load_ret = "false" /\ coordinates = None /\ total_steps = 0
        /\ (input_file.exists /\ input_file.rows = <<Row(2)>>) =>
              load_ret = "true" /\ total_steps = 1

\* Label of a (row, col) point, and the pixels that carry a label.
LabelOf(pt) == labels[pt[2] + 1]
PixelsOf(l) == {<<0, c - 1>> : c \in {c \in 1..Len(labels) : labels[c] = l}}

\* The points of label l in a path, in the order of the path.
Restrict(path, l) == SelectSeq(path, LAMBDA pt : LabelOf(pt) = l)

\* Labels processed so far whose path was added / that were skipped.
SolvedLabels == {l \in 1..Len(solved) : Truthy(solved[l])}
SkippedLabels == {l \in 1..Len(solved) : ~Truthy(solved[l])}

\* Concatenation of the paths returned for the labels 1..n, None counting
\* as the empty path.
RECURSIVE ConcatSolved(_)
ConcatSolved(n) ==
    IF n = 0 THEN <<>> ELSE ConcatSolved(n - 1) \o solved[n].path

RECURSIVE SumSolved(_)
SumSolved(n) ==
    IF n = 0 THEN 0 ELSE SumSolved(n - 1) + Len(solved[n].path)

\* run() has returned after process_shapes() went through the labels.
PipelineDone == gpc = "done" /\ image.readable

C19_SolvedPathIsPermutation ==
    \A l \in 1..Len(solved) :
        \/ solved[l].none
        \/ /\ Len(solved[l].path) = Cardinality(PixelsOf(l))
           /\ \A p \in PixelsOf(l) :
                 Cardinality({j \in 1..Len(solved[l].path) : solved[l].path[j] = p}) = 1

\* A shape of three pixels was solved in an order other than the scan order.
C19_Witness ==
    \E l \in 1..Len(solved) :
        /\ ~solved[l].none
        /\ Len(solved[l].path) = 3
        /\ solved[l].path[2][2] > solved[l].path[3][2]

\* C20: the global path is the concatenation of the paths returned for the
\* labels in ascending label order, so the points of a lower label precede
\* those of a higher one, and its length is the sum of the lengths of the
\* paths of the shapes that were not skipped.
C20_GlobalPathIsConcatenation ==
    /\ all_paths_pixels = ConcatSolved(Len(solved))
    /\ Len(all_paths_pixels) = SumSolved(Len(solved))
    /\ \A a, b \in 1..Len(all_paths_pixels) :
          a < b => LabelOf(all_paths_pixels[a]) <= LabelOf(all_paths_pixels[b])

\* Two shapes were solved and the path holds the points of both.
C20_Witness ==
    /\ PipelineDone
    /\ SolvedLabels = {1, 2}
    /\ Len(solved[1].path) = 2
    /\ Len(all_paths_pixels) = 3

\* Scaled coordinate of pixel index n, in 1/10000 of a unit.
Scaled(n) == n * step_size

\* A numeral t (in thousandths) is the scaled value v rounded to 3 decimals.
Rounds(t, v) ==
    /\ 10 * t - v <= 5
    /\ v - 10 * t <= 5
    /\ step_size % 10 = 0 => 10 * t = v

\* C21: the written file has one row per point of the global path, in path
\* order, whose first field is col * step_size and whose second field is
\* row * step_size, each to 3 decimals; with step_size = 50 the pixel
\* (row 2, col 3) is written as 150.000,100.000.
C21_SaveWritesScaledXY ==
    (gpc = "done" /\ run_ret = "true") =>
        /\ out_file.exists
        /\ Len(out_file.rows) = Len(all_paths_pixels)
        /\ \A k \in 1..Len(all_paths_pixels) :
              /\ Len(out_file.rows[k]) = 2
              /\ Rounds(out_file.rows[k][1], Scaled(all_paths_pixels[k][2]))
              /\ Rounds(out_file.rows[k][2], Scaled(all_paths_pixels[k][1]))
              /\ (step_size = PATH_GEN_STEP_SIZE * 10000 /\ all_paths_pixels[k] = <<2, 3>>) =>
                    out_file.rows[k] = <<150000, 100000>>

\* A two-point path through pixel (2, 3) was written with step size 50.
C21_Witness ==
    /\ gpc = "done"
    /\ run_ret = "true"
    /\ step_size = PATH_GEN_STEP_SIZE * 10000
    /\ Len(all_paths_pixels) = 2
    /\ all_paths_pixels[2] = <<2, 3>>
    /\ out_file.rows[2] = <<150000, 100000>>

\* Element (k, j) of the loaded coordinate array.
Coord(k, j) == coordinates.values[((k - 1) * coordinates.shape[2]) + j]

\* C22: a non-empty global path written by save_optimized_path and read back
\* by load_coordinates gives as many steps as the path has points, in the
\* same order, each coordinate within the 3-decimal rounding tolerance
\* (0.0005) of the scaled coordinate; a one-point path included.
C22_RoundTrip ==
    (gpc = "done" /\ run_ret = "true" /\ load_ret # "unset") =>
        /\ load_ret = "true"
        /\ total_steps = Len(all_paths_pixels)
        /\ coordinates.shape = <<Len(all_paths_pixels), 2>>
        /\ \A k \in 1..Len(all_paths_pixels) :
              /\ Coord(k, 1) - Scaled(all_paths_pixels[k][2]) \in -5..5
              /\ Coord(k, 2) - Scaled(all_paths_pixels[k][1]) \in -5..5

\* A one-point path whose x coordinate was rounded has been read back.
C22_Witness ==
    /\ load_ret = "true"
    /\ Len(all_paths_pixels) = 1
    /\ total_steps = 1
    /\ Coord(1, 1) # Scaled(all_paths_pixels[1][2])

Estimated == estimated_total_seconds # -1

\* The estimate for other inputs next to those of this run.
EstimateFor(steps, cure) ==
    estimate_duration(steps, cure, move_process_overhead_s, uv_command_overhead_s)

\* C24: for total_steps >= 1 the estimate is total_steps * (cure_time +
\* move_overhead) + 2 * uv_command_overhead (3 rows, cure time 2 s and zero
\* overheads give 6 s); it is strictly increasing in cure_time for a fixed
\* total_steps >= 1, and strictly increasing in total_steps, from 0 on, for
\* a fixed cure_time.
C24_EstimateFormula ==
    Estimated =>
        /\ total_steps >= 1 =>
              estimated_total_seconds =
                  total_steps * (cure_time_s + move_process_overhead_s)
                  + 2 * uv_command_overhead_s
        /\ (/\ total_steps = 3
            /\ cure_time_s = 20
            /\ move_process_overhead_s = 0
            /\ uv_command_overhead_s = 0) => estimated_total_seconds = 60
        /\ \A c \in CureTimes :
              (total_steps >= 1 /\ c > cure_time_s) =>
                  EstimateFor(total_steps, c) > estimated_total_seconds
        /\ \A n \in 0..(MaxRows + 1) :
              n > total_steps =>
                  EstimateFor(n, cure_time_s) > estimated_total_seconds

\* Three rows, a cure time of 2 s and zero overheads were estimated at 6 s.
C24_Witness ==
    /\ total_steps = 3
    /\ cure_time_s = 20
    /\ move_process_overhead_s = 0
    /\ uv_command_overhead_s = 0
    /\ estimated_total_seconds = 60

\* C25: when step k = i - 1 of n has just completed, the remaining-time
\* estimate carried by its progress event equals (n - k) * (E / k), E being
\* the time elapsed since the start of stepping, the k completed steps
\* included.
C25_RemainingFromCompletedSteps ==
    (pc = "poll" /\ i >= 2) =>
        estimated_remaining_sec.num * (i - 1) =
            (total_steps - (i - 1)) * elapsed_time * estimated_remaining_sec.den

\* A worker is between the top of run() and the end of its finally block.
WorkerLive == pc \notin {"idle", "done"}

\* C26: start_experiment launches a worker only when no worker is live and
\* the result of the previous one has been handled: from a launch until
\* handle_experiment_finished the start button is disabled, so no second
\* worker is launched and two workers never command the hardware together.
C26_OneRunAtATime ==
    [][/\ launches' # launches => ~WorkerLive /\ ~worker_thread
       /\ worker_thread' => ~start_button_enabled']_<<vars, envVars>>

\* The second worker launched from the window is in a cure wait.
C26_Witness ==
    /\ launches = 2
    /\ worker_thread
    /\ ~start_button_enabled
    /\ pc = "cure"

\* The UV OFF command of the cleanup was not answered.
UvOffUnanswered == \E k \in Positions("uv_off") : ~log[k].ok

\* C27: the finally block leaves the outcome determined before it as it is
\* and emits it as the terminal result, whatever fails during the cleanup
\* (UV OFF unanswered, close() raising inside a capability); a run whose n
\* steps were all executed is reported Completed.
C27_CleanupFailureKeepsOutcome ==
    [][pc = "finally" =>
          /\ overall_success' = overall_success
          /\ final_message' = final_message
          /\ pc' \in {"finally", "done"}
          /\ pc' = "done" =>
                /\ finished' = <<<<overall_success, final_message>>>>
                /\ (total_steps >= 1 /\ Cardinality(Cures) = total_steps)
                      => Outcome' = "Completed"]_vars

\* A run reported Completed whose UV OFF was not answered and in whose
\* motion disconnect a stage's close() raised.
C27_Witness ==
    /\ Done
    /\ Outcome = "Completed"
    /\ finished = <<<<TRUE, final_message>>>>
    /\ UvOffUnanswered
    /\ "motion_disconnect" \in cleanup_faults

\* The second run has ended and was given, to its end, what the first was.
SecondRunDone ==
    /\ ~first.none
    /\ Done
    /\ SameInputs
    /\ path_gen_success = first.path_gen_success
    /\ total_steps = first.total_steps
    /\ stopPc = first.stopPc
    /\ polledAt = first.polledAt

\* C28: of two runs given the same path generation result, coordinates,
\* hardware responses and moment of the stop request, whose pre-run and live
\* estimates differ, the second issues the hardware commands of the first,
\* in the same order, and ends with the same outcome.
C28_EstimatesDoNotAffectControl ==
    SecondRunDone =>
        /\ Commands(log) = first.commands
        /\ Outcome = first.outcome

\* Two runs of the same inputs that ended in their second step, whose
\* pre-run estimates and whose last remaining-time estimates differ.
C28_Witness ==
    /\ SecondRunDone
    /\ Cures # {}
    /\ Commands(log) = first.commands
    /\ estimated_total_seconds # first.estimated_total_seconds
    /\ estimated_remaining_sec # first.estimated_remaining_sec

\* Sum of the rounded distances between consecutive points of a path.
OpenLength(path) ==
    LET f[j \in 0..(Len(path) - 1)] ==
            IF j = 0 THEN 0 ELSE f[j - 1] + Dist(path[j], path[j + 1])
    IN f[Len(path) - 1]

\* Labels whose shape has two or more points and got a path.
RoutedLabels == {l \in SolvedLabels : Len(solved[l].path) >= 2}

\* The solver outcomes that make _solve_tsp_for_coords return solved[l].
OutcomesOf(l) ==
    LET coords == ShapeCoords(labels, l)
    IN {oc \in SolverOutcomes(Len(coords)) :
          oc.kind = "solution" /\ solve_tsp_for_coords(coords, oc) = solved[l]}

OnePointLabels == {l \in 1..Len(solved) : Cardinality(PixelsOf(l)) = 1}

\* C30: for a shape of 0 or 1 points _solve_tsp_for_coords returns the
\* points as they are whatever a search would have given, and a one-point
\* shape contributes exactly its one point to the global path.
C30_SmallShapesReturnedAsIs ==
    /\ \A oc \in {o \in SolverOutcomes(1) : o.kind # "solution"} :
          solve_tsp_for_coords(<<>>, oc) = Path(<<>>)
    /\ \A l \in OnePointLabels :
          LET coords == ShapeCoords(labels, l)
          IN /\ Len(coords) = 1
             /\ \A oc \in SolverOutcomes(1) :
                   solve_tsp_for_coords(coords, oc) = Path(coords)
             /\ solved[l] = Path(coords)
             /\ Restrict(all_paths_pixels, l) = coords

\* An image with a one-pixel shape between two others has been processed.
C30_Witness ==
    /\ PipelineDone
    /\ 2 \in OnePointLabels
    /\ Len(all_paths_pixels) >= 3
    /\ Restrict(all_paths_pixels, 2) = ShapeCoords(labels, 2)

\* The terminal result has been emitted.
ResultEmitted == Len(finished) = 1

\* The cancellation flag is set and the poll at the top of a step is next.
StopBeforeStepPoll == pc = "poll" /\ abort_requested

\* C31: every started run eventually emits its terminal result; a stop()
\* that precedes the poll at the top of a step leads to a run that ends
\* Aborted; no progress event follows the terminal result.
C31_RunTerminates ==
    /\ <>ResultEmitted
    /\ StopBeforeStepPoll ~> (Done /\ ResultEmitted /\ ResultKind = "Process Aborted")
    /\ [][ResultEmitted => progress' = progress]_vars

\* C31 witness: a run stopped before the poll of step 2 has ended Aborted,
\* its last progress event being the 0% event of the cleanup.
C31_Witness ==
    /\ Done /\ ResultEmitted
    /\ stopPc \in {"move", "cure"} /\ stopStep = 1 /\ i = 2
    /\ ResultKind = "Process Aborted"
    /\ progress[Len(progress)] = 0

\* What _connect_hardware returned to run(), read from what run() did next:
\* it went on to the origin move (or was aborted by the poll before it), or
\* raised "Failed to connect hardware."
ConnectReturnedTrue ==
    pc = "home" \/ (pc = "finally" /\ final_message.detail = "before homing")
ConnectReturnedFalse ==
    pc = "finally" /\ final_message.detail = "Failed to connect hardware"

\* C32: _connect_hardware starts with both capabilities disconnected; when
\* it returns True both report connected, and when it returns False neither
\* does.
C32_ConnectHardwareAllOrNothing ==
    [][pc = "connect" =>
         /\ ~MotionIsConnected(motion) /\ ~UVIsConnected(uv)
         /\ ConnectReturnedTrue' =>
               MotionIsConnected(motion') /\ UVIsConnected(uv')
         /\ ConnectReturnedFalse' =>
               ~MotionIsConnected(motion') /\ ~UVIsConnected(uv')]_vars

\* C32 witness: _connect_hardware has just returned False because the UV
\* controller did not connect, after the motion system had.
C32_Witness ==
    /\ ConnectReturnedFalse
    /\ UvConnectFailed
    /\ \E k \in Positions("motion_connect") : log[k].ok
    /\ ~MotionIsConnected(motion) /\ ~UVIsConnected(uv)

\* The device calls of the last capability call that were made on dev.
IoOn(dev, op) ==
    {k \in 1..Len(dev_last.calls) :
        dev_last.calls[k].dev = dev /\ dev_last.calls[k].op = op}

\* C33: is_connected() is true exactly when both stage handles are held; a
\* connect that did not succeed leaves the system disconnected with no
\* handle retained; connect on a connected system opens nothing;
\* disconnect always leaves the system disconnected.
C33_MotionConnectedIffBothHandles ==
    /\ MotionIsConnected(motion) <=> (motion.stage_x /\ motion.stage_y)
    /\ (dev_last.op = "motion_connect" /\ dev_last.ret # "true") =>
          /\ ~MotionIsConnected(motion)
          /\ ~motion.stage_x /\ ~motion.stage_y
    /\ (dev_last.op = "motion_connect" /\ MotionIsConnected(dev_last.motion)) =>
          /\ dev_last.calls = <<>>
          /\ motion = dev_last.motion
    /\ dev_last.op = "motion_disconnect" => ~MotionIsConnected(motion)

\* C34: move_to_um and home on a motion system that is not connected, and
\* uv_on and uv_off on a UV controller that is not connected, return False
\* and make no device call.
C34_NoCommandWhenDisconnected ==
    /\ (dev_last.op \in {"move_to_um", "home"} /\ ~MotionIsConnected(dev_last.motion)) =>
          dev_last.ret = "false" /\ dev_last.calls = <<>>
    /\ (dev_last.op \in {"uv_on", "uv_off"} /\ ~UVIsConnected(dev_last.uv)) =>
          dev_last.ret = "false" /\ dev_last.calls = <<>>

\* C34 witness: UV ON was asked, as the third call, of a controller that is
\* not connected; it returned False.
C34_Witness ==
    /\ dev_last.op = "uv_on"
    /\ ~UVIsConnected(dev_last.uv)
    /\ dev_last.ret = "false"
    /\ dev_calls = 3

\* C37: when disconnect() is called on a connected motion system and the
\* close() of the X stage raises, close() is still called on the Y stage.
C37_BothStagesClosed ==
    (/\ dev_last.op = "motion_disconnect"
     /\ MotionIsConnected(dev_last.motion)
     /\ \E k \in IoOn("x", "close") : ~dev_last.calls[k].ok)
    => IoOn("y", "close") # {}

\* The path generator of this run has written the coordinate file.
GeneratedByThisRun == gpc = "done" /\ run_ret = "true"

\* The coordinate file is as it was before the run.
FileUntouched ==
    out_file.rows = IF out_file.exists THEN EarlierRows ELSE <<>>

\* C35: the worker loads the coordinate file and issues hardware calls only
\* after this run's path generation has written it, and what it loads and
\* steps through are the points of this run's global path; when the path
\* generation fails or produces no path the file stays as it was and is
\* never loaded.
C35_OnlyOwnCoordinates ==
    /\ (load_ret # "unset" \/ log # <<>> \/ pc \in {"load", "connect", "home",
                                                  "uvon", "poll", "move", "cure"}) =>
          /\ GeneratedByThisRun
          /\ Len(out_file.rows) = Len(all_paths_pixels)
          /\ \A k \in 1..Len(all_paths_pixels) :
                out_file.rows[k] = <<all_paths_pixels[k][2] * (PATH_GEN_STEP_SIZE * 1000),
                                     all_paths_pixels[k][1] * (PATH_GEN_STEP_SIZE * 1000)>>
    /\ load_ret # "unset" =>
          /\ load_ret = "true"
          /\ input_file.rows = out_file.rows
          /\ total_steps = Len(all_paths_pixels)
          /\ \A k \in 1..total_steps :
                /\ Coord(k, 1) = Scaled(all_paths_pixels[k][2])
                /\ Coord(k, 2) = Scaled(all_paths_pixels[k][1])
          /\ \A k \in StepMoves : log[k].step \in 1..total_steps
    /\ (gpc = "done" /\ run_ret = "false") =>
          /\ FileUntouched
          /\ load_ret = "unset"
          /\ log = <<>>
          /\ pc = "pathgen" \/ (pc \in {"finally", "done"} /\ Outcome # "Completed")

\* C35 witness: the image had no white pixel, so no path was produced and
\* the file of the earlier run is still on disk; the run has ended Failed
\* without loading it.
C35_Witness ==
    /\ Done
    /\ image.readable
    /\ all_paths_pixels = <<>>
    /\ out_file.exists /\ out_file.writable /\ out_file.rows = EarlierRows
    /\ path_gen_success = "false"
    /\ load_ret = "unset"
    /\ Outcome = "Failed"

\* What the calls of ExperimentRunner.run() gave, read from the log.
HardwareConnected ==
    /\ \E k \in Positions("motion_connect") : log[k].ok
    /\ \E k \in Positions("uv_connect") : log[k].ok
OriginMoveSucceeded == \E k \in Positions("move") : log[k].step = 0 /\ log[k].ok
AllStepMovesSucceeded ==
    \A st \in 1..total_steps : \E k \in StepMoves : log[k].step = st /\ log[k].ok

\* C36 as stated: run() returns True exactly when the coordinates loaded,
\* the hardware connected, the origin move and UV ON succeeded and every
\* step's move succeeded; it has called _disconnect_hardware exactly once.
C36_RunnerTrueIffAllSucceeded ==
    rpc = "returned" =>
        /\ runner_ret = "true" <=>
              /\ load_ret = "true"
              /\ HardwareConnected
              /\ OriginMoveSucceeded
              /\ LoopEntered
              /\ AllStepMovesSucceeded
        /\ cleanups = 1

\* C36: run() returns True exactly when the coordinates loaded, the
\* hardware connected, the origin move (made only when start_at_origin is
\* true) and UV ON succeeded, every step's move succeeded and no
\* KeyboardInterrupt came inside the try block; whenever it returns it has
\* called _disconnect_hardware exactly once.
C36_RunnerTrueIffAllSucceededUninterrupted ==
    rpc = "returned" =>
        /\ runner_ret = "true" <=>
              /\ load_ret = "true"
              /\ HardwareConnected
              /\ start_at_origin => OriginMoveSucceeded
              /\ ~start_at_origin => Positions("move") \cap {k \in 1..Len(log) : log[k].step = 0} = {}
              /\ LoopEntered
              /\ AllStepMovesSucceeded
              /\ ~interrupted
        /\ cleanups = 1

\* C36 witness: every call of a two-step run succeeded, the interrupt came
\* during the last cure wait, and run() returned False after one cleanup.
C36_Witness ==
    /\ rpc = "returned"
    /\ interrupted
    /\ total_steps = 2
    /\ HardwareConnected /\ OriginMoveSucceeded /\ LoopEntered
    /\ AllStepMovesSucceeded
    /\ CuredSteps = {1}
    /\ runner_ret = "false"
    /\ cleanups = 1

\* C38: for a non-negative duration the result (h, m, s) has m and s in
\* 0..59 and h*3600 + m*60 + s is the duration rounded to the nearest
\* second; for a negative duration it is (0, 0, 0).
C38_HmsInRange ==
    hms # <<>> =>
        IF seconds < 0 THEN hms = <<0, 0, 0>>
        ELSE /\ hms[1] >= 0
             /\ hms[2] \in 0..59
             /\ hms[3] \in 0..59
             /\ (10 * ((hms[1] * 3600) + (hms[2] * 60) + hms[3])) - seconds \in -5..5

====
